---- MODULE Spec2Model ----
(***************************************************************************)
(* Provisioning of one TeamsFx environment: the orchestrator                *)
(* provisionResourceImpl (fx-solution/v2/provision.ts), the account and    *)
(* subscription reconciler fillInAzureConfigs (component/provision.ts) and *)
(* the consent gate askForProvisionConsentNew.  One behaviour is a         *)
(* sequence of provisioning runs over the same envInfo; every await of the *)
(* code is a step, and the result of every collaborator (token provider,   *)
(* resource manager, user interaction, plugins, template deployment) is a  *)
(* nondeterministic choice.  A second specification, SpecLoader, is the    *)
(* environment lookup useUserSetEnv (core/middleware/envInfoLoader.ts)     *)
(* over the set of environments of a project.                              *)
(***************************************************************************)
EXTENDS Naturals, Sequences, FiniteSets, TLC

\* ---------------------------------------------------------------- bounds
\* number of provisioning runs of the environment in one behaviour
MaxRuns == 2
\* number of "Learn more" answers the operator gives to one consent gate
MaxLearnMore == 2

\* ------------------------------------------------------------ value sets
Tenants == {"T1", "T2"}
Subscriptions == {"S1", "S2"}
\* the values uuidv4().substr(0, 6) gives, one after the other: every call
\* gives a value no earlier call gave
Suffixes == <<"a1b2c3", "d4e5f6", "0a9b8c", "7e6f5d">>

APPST == "fx-resource-appstudio"
AAD == "fx-resource-aad-app-for-teams"
FE == "fx-resource-frontend-hosting"
SPFX == "fx-resource-spfx"
BOT == "fx-resource-bot"
AllPlugins == {APPST, AAD, FE, SPFX, BOT}

provisionText == "Provision"
learnMoreText == "Learn more"

\* ------------------------------------------------------- results, errors
NoResult == [kind |-> "none", name |-> "", from |-> ""]
Ok == [kind |-> "ok", name |-> "", from |-> ""]
UserError(source, name) == [kind |-> "UserError", name |-> name, from |-> source]
SystemError(source, name) == [kind |-> "SystemError", name |-> name, from |-> source]
\* an error Result handed back by a collaborator at the given call
CollaboratorError(call) == [kind |-> "UserError", name |-> "Error", from |-> call]
IsErr(r) == r.kind \in {"UserError", "SystemError"}
\* an exception that leaves provisionResource: its promise rejects, the
\* caller gets no Result
Rejected(call) == [kind |-> "rejected", name |-> "Error", from |-> call]

\* ------------------------------------------------------ project settings
\* the projects of the provision tests: an Azure project with a tab, AAD and
\* the app manifest; an Azure project without AAD; an SPFx project
\* isAzure: the host type of the solution settings is Azure; hasAzureResource:
\* hasAzureResource(ctx.projectSetting, true), an active plugin is an Azure
\* resource. The third project is the one of the test "should not call arm
\* deployment when there is no Azure resource to provision"
AzureAadProject ==
  [name |-> "azure-aad", isAzure |-> TRUE, hasAzureResource |-> TRUE, hasAAD |-> TRUE,
   plugins |-> <<FE, AAD, APPST>>]
SpfxProject ==
  [name |-> "spfx", isAzure |-> FALSE, hasAzureResource |-> FALSE, hasAAD |-> FALSE,
   plugins |-> <<SPFX, APPST>>]
AzureNoResourceProject ==
  [name |-> "azure-no-resource", isAzure |-> TRUE, hasAzureResource |-> FALSE,
   hasAAD |-> TRUE, plugins |-> <<AAD, APPST>>]
Projects == {AzureAadProject, SpfxProject, AzureNoResourceProject}

\* provision.ts lines 180 and 326-328: isAzureProject(azureSolutionSettings) &&
\* hasAzureResource(ctx.projectSetting, true)
AzureResourcesToProvision(settings) == settings.isAzure /\ settings.hasAzureResource

\* plugin.provisionResource / plugin.configureResource are optional members
ImplementsProvision(p) == p \in {APPST, AAD, FE, SPFX, BOT}
ImplementsConfigure(p) == p \in {APPST, AAD, FE, BOT}
\* aadPlugin.executeUserTask is defined
AadHasExecuteUserTask == TRUE

\* ------------------------------------------------------ environment info
\* envInfo.config.azure: "" is an absent value
Configs ==
  { [subscriptionId |-> "", resourceGroupName |-> "", resourceNameSuffix |-> ""],
    [subscriptionId |-> "S1", resourceGroupName |-> "cfg-rg", resourceNameSuffix |-> ""] }

\* envInfo.state.solution; present = FALSE is "no solution entry", "" and
\* "undefined" are absent members
EmptySolution ==
  [ present |-> FALSE, teamsAppTenantId |-> "", subscriptionId |-> "",
    subscriptionName |-> "", tenantId |-> "", resourceGroupName |-> "",
    location |-> "", resourceNameSuffix |-> "",
    needCreateResourceGroup |-> "undefined", provisionSucceeded |-> "undefined",
    armTemplateOutput |-> FALSE ]

\* envInfo.state[plugin.name]; provisioned / configured are TRUE when the
\* entry holds what provisionResource / configureResource of the plugin wrote,
\* output is TRUE when template outputs were merged into it, resourceId is the
\* member of that name ("" when absent; of the entries of this model the bot
\* one has it, as an output of the templates)
EmptySlice ==
  [present |-> FALSE, tenantId |-> "", provisioned |-> FALSE, configured |-> FALSE,
   output |-> FALSE, resourceId |-> ""]
NewSlice == [EmptySlice EXCEPT !.present = TRUE]

VARIABLES
  project,                \* ctx.projectSetting
  isSwitchAccountEnabled, \* doesAllowSwitchAccount()
  config,                 \* envInfo.config.azure
  solution,               \* envInfo.state.solution
  slices,                 \* envInfo.state[plugin.name], per plugin
  runs,                   \* number of runs started so far
  pc,                     \* position of the current run in provisionResourceImpl
  run,                    \* locals of the current run and what it has done
  prov,                   \* per plugin: state of its provisionResource call
  conf,                   \* per plugin: state of its configureResource call
  result,                 \* the Result the current run returned
  loader,                 \* the environments of the project and the calls of
                          \* useUserSetEnv (envInfoLoader.ts)
  mig,                    \* a project settings object and its conversions
                          \* (component/migrate.ts)
  store,                  \* an environment state, its files at rest and what is
                          \* loaded from them
  plug,                   \* envInfo.state as the orchestrator hands it to the
                          \* APIM plugin, and the plugin's calls
  before,                 \* envInfo.state as it was when the run of an already
                          \* provisioned environment started
  mw,                     \* one EnvInfoLoaderMW middleware and its invocations
  dbg,                    \* the local environment state file and the runs of
                          \* the debug handlers over it
  ngrok,                  \* one call of getNgrokHttpUrl
  envState                \* an environment state and its key conversions

vars == <<project, isSwitchAccountEnabled, config, solution, slices, runs, pc, run,
          prov, conf, result, loader, mig, store, plug, before, mw, dbg, ngrok,
          envState>>
others == <<loader, mig, store, plug, before, mw, dbg, ngrok, envState>>
env == <<project, isSwitchAccountEnabled, config>>
provisioning == <<project, isSwitchAccountEnabled, config, solution, slices, runs, pc,
                  run, prov, conf, result>>

\* locals of a run before its first statement
NewRun ==
  [ isForUT |-> FALSE,
    tenantResolved |-> FALSE, tenantIdInConfig |-> "", tenantIdInToken |-> "",
    isSwitchingM365Tenant |-> FALSE, hasSwitchedM365Tenant |-> FALSE,
    hasSwitchedSubscription |-> FALSE,
    subscriptionInAccount |-> "", subscriptions |-> {},
    targetResourceGroupName |-> "", rgSource |-> "none", rgAnswer |-> "none",
    gateHasAzureResource |-> FALSE, accountsInfo |-> <<>>, newBotNotice |-> "",
    prompts |-> 0, urlOpens |-> 0, showMessageFailed |-> FALSE, declined |-> FALSE,
    gate |-> "none",
    rgCreate |-> "none", configFiles |-> "none",
    arm |-> "none", aadContext |-> "none",
    provisionKind |-> "none", configureKind |-> "none",
    reconcileError |-> NoResult, confirm |-> "" ]

Idle == [p \in AllPlugins |-> "idle"]

\* a part of the module the specification at hand does not use
NotInUse == [pc |-> "none"]

\* no settings object is being converted
NoMigration == [pc |-> "none"]

\* no environment state is being written or loaded
NoStore == [pc |-> "none"]

\* the APIM plugin is not called
NoPlugin == [pc |-> "none"]

\* the environments of the project, no call of useUserSetEnv made yet
NoLoad(envs) ==
  [envs |-> envs, loads |-> 0, pc |-> "idle", requested |-> "", existedBefore |-> FALSE,
   createLocalEnvCalls |-> 0, result |-> NoResult, value |-> ""]

Init ==
  /\ project \in Projects
  /\ isSwitchAccountEnabled \in BOOLEAN
  /\ config \in Configs
  /\ solution = EmptySolution
  /\ slices = [p \in AllPlugins |-> EmptySlice]
  /\ runs = 0
  /\ pc = "idle"
  /\ run = NewRun
  /\ prov = Idle
  /\ conf = Idle
  /\ result = NoResult
  /\ loader = NoLoad({"dev"})
  /\ mig = NoMigration
  /\ store = NoStore
  /\ plug = NoPlugin
  /\ before = NotInUse
  /\ mw = NotInUse
  /\ dbg = NotInUse
  /\ ngrok = NotInUse
  /\ envState = NotInUse

\* the run returns r
Return(r) == pc' = "done" /\ result' = r

\* ------------------------------------------------- provisionResourceImpl
\* provisionResource is called: lines 124-131, the projectPath check
StartRun ==
  /\ pc \in {"idle", "done"}
  /\ runs < MaxRuns
  /\ runs' = runs + 1
  /\ prov' = Idle /\ conf' = Idle
  /\ \E projectPathDefined \in BOOLEAN, isForUT \in BOOLEAN :
       /\ run' = [NewRun EXCEPT !.isForUT = isForUT]
       /\ IF projectPathDefined
            THEN pc' = "getAccessToken" /\ result' = NoResult
            ELSE Return(SystemError("Solution", "InternelError"))
  /\ before' = IF before = NotInUse THEN before
               ELSE [solution |-> solution, slices |-> slices]
  /\ UNCHANGED <<loader, mig, store, plug, mw, dbg, ngrok, envState, env, solution,
                 slices>>

\* the calls provisionResourceImpl and fillInAzureConfigs await outside any
\* try block (neither function has one): getAccessToken (provision.ts 135),
\* getSelectedSubscription and listSubscriptions (part_002 55-70),
\* getIdentityCredentialAsync and the resource group helper (part_002 229-340),
\* deployArmTemplates (provision.ts 331)
AwaitedCollaborators ==
  {"getAccessToken", "checkSubscription", "listSubscriptions", "azureLogin",
   "awaitResourceGroup", "awaitDeployArmTemplates"}

\* the awaited call throws: nothing catches it on the way out of
\* provisionResource (provision.ts 81-116), the run ends without a Result
CollaboratorThrows ==
  /\ pc \in AwaitedCollaborators
  /\ pc' = "rejected"
  /\ result' = Rejected(pc)
  /\ UNCHANGED <<others, env, solution, slices, runs, run, prov, conf>>

\* lines 135-140: trigger the M365 login
GetAccessToken ==
  /\ pc = "getAccessToken"
  /\ \E tokenOk \in BOOLEAN :
       IF tokenOk THEN pc' = "checkM365Tenant" /\ result' = result
       ELSE Return(CollaboratorError("getAccessToken"))
  /\ UNCHANGED <<others, env, solution, slices, runs, run, prov, conf>>

\* getM365TenantId (component/provision.ts): the token, then its JSON object
TokenJsons ==
  {[defined |-> FALSE, tid |-> "", isString |-> TRUE]} \cup
  {[defined |-> TRUE, tid |-> t, isString |-> s] : t \in Tenants \cup {""}, s \in BOOLEAN}

getM365TenantId(tokenOk, json) ==
  IF ~tokenOk
    THEN [res |-> CollaboratorError("getAccessToken"), tenantIdInToken |-> ""]
  ELSE IF ~json.defined
    THEN [res |-> SystemError("core", "NoAppStudioToken"), tenantIdInToken |-> ""]
  ELSE IF json.tid = "" \/ ~json.isString
    THEN [res |-> SystemError("core", "NoTeamsAppTenantId"), tenantIdInToken |-> ""]
  ELSE [res |-> Ok, tenantIdInToken |-> json.tid]

\* variant: the stored tenant id is compared without checking that it exists
isSwitchingM365Tenant_noExistenceCheck(tenantIdInConfig, tenantIdInToken) ==
  tenantIdInToken # tenantIdInConfig

\* line 160-161
isSwitchingM365Tenant(tenantIdInConfig, tenantIdInToken) ==
  tenantIdInConfig # "" /\ tenantIdInToken # "" /\ tenantIdInToken # tenantIdInConfig

\* envInfo.envName
envName == "dev"

\* getLocalizedString(key, arg): the message template of the key, filled in
\* with the argument
getLocalizedString(key, arg) == [key |-> key, args |-> <<arg>>]

\* lines 163-169: the error of a tenant switch that is not allowed
TeamsAppTenantIdNotRight ==
  [kind |-> "UserError", name |-> "TeamsAppTenantIdNotRight", from |-> "Solution",
   message |-> getLocalizedString("error.M365AccountNotMatch", envName)]

\* variant: a tenant switch is let through whatever the configuration says
SwitchNotAllowed_never(switching, enabled) == FALSE

\* line 162
SwitchNotAllowed(switching, enabled) == switching /\ ~enabled

\* resetEnvInfoWhenSwitchM365 (component/utils.ts): the entries that identify
\* the app registrations of the previous tenant are dropped
resetEnvInfoWhenSwitchM365(sl) ==
  [p \in AllPlugins |-> IF p \in {APPST, AAD} THEN EmptySlice ELSE sl[p]]

\* where the run goes after the tenant check: lines 180-181 and 247
AfterTenantCheck(hasSwitchedM365Tenant) ==
  IF AzureResourcesToProvision(project)
    THEN (IF project.hasAAD THEN "ensurePermissionRequest" ELSE "checkSubscription")
  ELSE IF hasSwitchedM365Tenant THEN "consent"
  ELSE "provision"

\* lines 146-178: check M365 tenant
CheckM365Tenant ==
  /\ pc = "checkM365Tenant"
  /\ \E tokenOk \in BOOLEAN, json \in TokenJsons :
       LET sl0 == [slices EXCEPT ![APPST] = IF @.present THEN @ ELSE NewSlice]
           sol0 == [solution EXCEPT !.present = TRUE]
           tenantIdInConfig == sl0[APPST].tenantId
           r == getM365TenantId(tokenOk, json)
           switching == isSwitchingM365Tenant(tenantIdInConfig, r.tenantIdInToken)
           run1 == [run EXCEPT !.tenantResolved = TRUE,
                               !.tenantIdInConfig = tenantIdInConfig,
                               !.tenantIdInToken = r.tenantIdInToken,
                               !.isSwitchingM365Tenant = switching]
           sl1 == IF switching THEN resetEnvInfoWhenSwitchM365(sl0) ELSE sl0
       IN IF IsErr(r.res)
            THEN /\ Return(r.res)
                 /\ slices' = sl0 /\ solution' = sol0
                 /\ run' = [run EXCEPT !.reconcileError = r.res]
          ELSE IF SwitchNotAllowed(switching, isSwitchAccountEnabled)
            THEN /\ Return(TeamsAppTenantIdNotRight)
                 /\ slices' = sl0 /\ solution' = sol0 /\ run' = run1
          ELSE /\ slices' = [sl1 EXCEPT ![APPST] =
                               [(IF @.present THEN @ ELSE NewSlice)
                                  EXCEPT !.tenantId = r.tenantIdInToken]]
               /\ solution' = [sol0 EXCEPT !.teamsAppTenantId = r.tenantIdInToken]
               /\ run' = [run1 EXCEPT !.hasSwitchedM365Tenant = switching]
               /\ pc' = AfterTenantCheck(switching)
               /\ result' = result
  /\ UNCHANGED <<others, env, runs, prov, conf>>

\* lines 181-192: ensurePermissionRequest
EnsurePermissionRequest ==
  /\ pc = "ensurePermissionRequest"
  /\ \E ok \in BOOLEAN :
       IF ok THEN pc' = "checkSubscription" /\ result' = result /\ run' = run
       ELSE /\ Return(CollaboratorError("ensurePermissionRequest"))
            /\ run' = [run EXCEPT !.reconcileError =
                                    CollaboratorError("ensurePermissionRequest")]
  /\ UNCHANGED <<others, env, solution, slices, runs, prov, conf>>

\* ---------------------------------------------------- fillInAzureConfigs
SubscriptionName(s) == IF s = "S1" THEN "Subscription One" ELSE "Subscription Two"
SubscriptionTenant(s) == IF s = "S1" THEN "azure-tenant-1" ELSE "azure-tenant-2"

updateEnvInfoSubscription(sol, s) ==
  [sol EXCEPT !.subscriptionId = s, !.subscriptionName = SubscriptionName(s),
              !.tenantId = SubscriptionTenant(s)]

\* clearEnvInfoStateResource lines 166-180: keysToClear (of the entries of
\* this model, the bot and the tab hosting one are in the list)
keysToClear == {BOT, FE}
\* lines 163-192: the resource group name and the suffix are emptied, the
\* listed entries are deleted (no project of this model has an APIM entry,
\* the one keysToModify is about)
clearEnvInfoStateResource(sol, sl) ==
  [ solution |-> [sol EXCEPT !.resourceGroupName = "", !.resourceNameSuffix = ""],
    slices |-> [p \in AllPlugins |-> IF p \in keysToClear THEN EmptySlice ELSE sl[p]] ]

\* variant: the target is compared without checking that an id was stored
compareWithStateSubscription_noStoredCheck(sol, sl, target, subscriptionInStateId) ==
  LET cleared == clearEnvInfoStateResource(updateEnvInfoSubscription(sol, target), sl)
  IN IF target # subscriptionInStateId
       THEN [res |-> Ok, hasSwitchedSubscription |-> TRUE,
             solution |-> cleared.solution, slices |-> cleared.slices]
       ELSE [res |-> Ok, hasSwitchedSubscription |-> FALSE,
             solution |-> updateEnvInfoSubscription(sol, target), slices |-> sl]

\* lines 138-159
compareWithStateSubscription(sol, sl, target, subscriptionInStateId) ==
  LET hasSwitchedSubscription ==
        subscriptionInStateId # "" /\ target # subscriptionInStateId
      updated == updateEnvInfoSubscription(sol, target)
      cleared == clearEnvInfoStateResource(updated, sl)
  IN IF hasSwitchedSubscription
       THEN [res |-> Ok, hasSwitchedSubscription |-> TRUE,
             solution |-> cleared.solution, slices |-> cleared.slices]
       ELSE [res |-> Ok, hasSwitchedSubscription |-> FALSE,
             solution |-> updated, slices |-> sl]

\* subscriptionInAccount: getSelectedSubscription(true), "" when none;
\* subscriptions: the ids listSubscriptions() returns
checkProvisionSubscriptionWhenSwitchAccountEnabled(sol, sl, cfg, subscriptionInAccount, subscriptions) ==
  LET subscriptionIdInConfig == cfg.subscriptionId
      subscriptionIdInState == sol.subscriptionId
      notFound == [res |-> UserError("core", "SubscriptionNotFound"),
                   hasSwitchedSubscription |-> FALSE, solution |-> sol, slices |-> sl]
  IN IF subscriptionIdInState = "" /\ subscriptionIdInConfig = ""
       THEN IF subscriptionInAccount = "" THEN notFound
            ELSE [res |-> Ok, hasSwitchedSubscription |-> FALSE,
                  solution |-> updateEnvInfoSubscription(sol, subscriptionInAccount),
                  slices |-> sl]
     ELSE IF subscriptionIdInConfig # ""
       THEN IF subscriptionIdInConfig \notin subscriptions THEN notFound
            ELSE compareWithStateSubscription(sol, sl, subscriptionIdInConfig,
                                              subscriptionIdInState)
     ELSE IF subscriptionInAccount = ""
       THEN IF subscriptionIdInState \in subscriptions
              THEN [res |-> Ok, hasSwitchedSubscription |-> FALSE,
                    solution |-> updateEnvInfoSubscription(sol, subscriptionIdInState),
                    slices |-> sl]
              ELSE notFound
     ELSE compareWithStateSubscription(sol, sl, subscriptionInAccount,
                                       subscriptionIdInState)

\* variant: the error of fillInAzureConfigs is not checked
FillInAzureConfigsFailed_ignored(r) == pc' = "consent" /\ result' = result

\* provision.ts lines 201-203: fillInAzureConfigs returned the error r
FillInAzureConfigsFailed(r) == Return(r)

\* variant: the resolved subscription is written back into the config
SubscriptionChecked_writesConfig(r) ==
  LET left == [run EXCEPT !.subscriptionInAccount = "", !.subscriptions = {}]
  IN /\ solution' = r.solution
     /\ slices' = r.slices
     /\ config' = [config EXCEPT !.subscriptionId = r.solution.subscriptionId]
     /\ IF IsErr(r.res)
          THEN /\ FillInAzureConfigsFailed(r.res)
               /\ run' = [left EXCEPT !.reconcileError = r.res]
          ELSE /\ pc' = "azureLogin" /\ result' = result
               /\ run' = [left EXCEPT !.hasSwitchedSubscription =
                                        r.hasSwitchedSubscription]

\* fillInAzureConfigs lines 211-225: checkProvisionSubscriptionWhenSwitchAccountEnabled
\* has returned r; its locals are gone. The subscription is written to the
\* state (updateEnvInfoSubscription), the config is only read
SubscriptionChecked(r) ==
  LET left == [run EXCEPT !.subscriptionInAccount = "", !.subscriptions = {}]
  IN /\ solution' = r.solution
     /\ slices' = r.slices
     /\ config' = config
     /\ IF IsErr(r.res)
          THEN /\ FillInAzureConfigsFailed(r.res)
               /\ run' = [left EXCEPT !.reconcileError = r.res]
          ELSE /\ pc' = "azureLogin" /\ result' = result
               /\ run' = [left EXCEPT !.hasSwitchedSubscription =
                                        r.hasSwitchedSubscription]

\* part_002 lines 55-65: getSelectedSubscription(true) returns; with no
\* subscription in state and none in the config the function returns here
CheckSubscription ==
  /\ pc = "checkSubscription"
  /\ \E subscriptionInAccount \in Subscriptions \cup {""} :
       IF solution.subscriptionId = "" /\ config.subscriptionId = ""
         THEN SubscriptionChecked(
                checkProvisionSubscriptionWhenSwitchAccountEnabled(
                  solution, slices, config, subscriptionInAccount, {}))
         ELSE /\ run' = [run EXCEPT !.subscriptionInAccount = subscriptionInAccount]
              /\ pc' = "listSubscriptions"
              /\ UNCHANGED <<config, solution, slices, result>>
  /\ UNCHANGED <<others, project, isSwitchAccountEnabled, runs, prov, conf>>

\* part_002 lines 68-70: listSubscriptions() returns
ListSubscriptions ==
  /\ pc = "listSubscriptions"
  /\ \E subscriptions \in SUBSET Subscriptions :
       run' = [run EXCEPT !.subscriptions = subscriptions]
  /\ pc' = "compareSubscription"
  /\ UNCHANGED <<others, env, solution, slices, runs, prov, conf, result>>

\* part_002 lines 72-129: the subscription of the config, of the state or of
\* the account is taken
CompareSubscription ==
  /\ pc = "compareSubscription"
  /\ SubscriptionChecked(
       checkProvisionSubscriptionWhenSwitchAccountEnabled(
         solution, slices, config, run.subscriptionInAccount, run.subscriptions))
  /\ UNCHANGED <<others, project, isSwitchAccountEnabled, runs, prov, conf>>

\* fillInAzureConfigs lines 229-234: the Azure credential
AzureLogin ==
  /\ pc = "azureLogin"
  /\ \E azureTokenDefined \in BOOLEAN :
       IF azureTokenDefined THEN pc' = "resourceGroup" /\ result' = result /\ run' = run
       ELSE /\ FillInAzureConfigsFailed(UserError("core", "NotLoginToAzure"))
            /\ run' = [run EXCEPT !.reconcileError = UserError("core", "NotLoginToAzure")]
  /\ UNCHANGED <<others, env, solution, slices, runs, prov, conf>>

\* resourceGroupHelper.getResourceGroupInfo / checkResourceGroupExistence /
\* askResourceGroupInfo: what the resource manager or the operator answers
GetResourceGroupInfoResults == {"error", "notFound", "found"}
\* what the resource manager does on the existence request: it answers that
\* the group exists or not, or the request throws a RestError with status 403
\* or another status, another Error, or a value that is not an Error
CheckResourceGroupExistenceResults ==
  {"exists", "missing", "rest403", "restOther", "error", "nonError"}
AskResourceGroupInfoResults == {"error", "new", "existing"}

\* variant: the name stored in state is looked at before the config file
ResourceGroupSource_stateFirst(sol, cfg, targetResourceGroupName) ==
  IF targetResourceGroupName # "" THEN "inputs"
  ELSE IF sol.resourceGroupName # "" /\ sol.location # "" THEN "state"
  ELSE IF cfg.resourceGroupName # "" THEN "config"
  ELSE "ask"

\* fillInAzureConfigs lines 261, 290, 308, 324: which source gives the
\* resource group
ResourceGroupSource(sol, cfg, targetResourceGroupName) ==
  IF targetResourceGroupName # "" THEN "inputs"
  ELSE IF cfg.resourceGroupName # "" THEN "config"
  ELSE IF sol.resourceGroupName # "" /\ sol.location # "" THEN "state"
  ELSE "ask"

\* the helper a source calls, and what it can answer
HelperAnswers(source) ==
  IF source \in {"inputs", "config"} THEN GetResourceGroupInfoResults
  ELSE IF source = "state" THEN CheckResourceGroupExistenceResults
  ELSE AskResourceGroupInfoResults

\* a ResourceGroupInfo of an existing group; the error result of the block
ExistingResourceGroup(n) ==
  [res |-> Ok, createNewResourceGroup |-> FALSE, name |-> n, location |-> "eastus"]
NoResourceGroupInfo(e) ==
  [res |-> e, createNewResourceGroup |-> FALSE, name |-> "", location |-> ""]

\* variant: a group of the config file that does not exist is created under
\* the default name
ResourceGroupFromConfig_fallsBack(cfg, answer) ==
  IF answer = "error" THEN NoResourceGroupInfo(CollaboratorError("getResourceGroupInfo"))
  ELSE IF answer = "notFound"
    THEN [res |-> Ok, createNewResourceGroup |-> TRUE, name |-> "default-rg",
          location |-> "eastus"]
  ELSE ExistingResourceGroup(cfg.resourceGroupName)

\* fillInAzureConfigs lines 290-307: the group named in the config file
ResourceGroupFromConfig(cfg, answer) ==
  IF answer = "error" THEN NoResourceGroupInfo(CollaboratorError("getResourceGroupInfo"))
  ELSE IF answer = "notFound"
    THEN NoResourceGroupInfo(UserError("core", "ResourceGroupNotFound"))
  ELSE ExistingResourceGroup(cfg.resourceGroupName)

\* checkResourceGroupExistence: true, false, or one of two errors
checkResourceGroupExistence(upstream) ==
  IF upstream = "exists" THEN [res |-> Ok, value |-> TRUE]
  ELSE IF upstream = "missing" THEN [res |-> Ok, value |-> FALSE]
  ELSE IF upstream = "rest403"
    THEN [res |-> UserError("Solution", "UnauthorizedToCheckResourceGroupError"),
          value |-> FALSE]
  ELSE [res |-> UserError("Solution", "FailedToCheckResourceGroupExistenceError"),
        value |-> FALSE]

\* variant: a check that failed is taken as "the group does not exist"
ResourceGroupFromState_errorIsMissing(sol, checkRes) ==
  [res |-> Ok, createNewResourceGroup |-> ~(checkRes.res = Ok /\ checkRes.value),
   name |-> sol.resourceGroupName, location |-> sol.location]

\* fillInAzureConfigs lines 308-323: the group stored in state
ResourceGroupFromState(sol, checkRes) ==
  IF IsErr(checkRes.res) THEN NoResourceGroupInfo(checkRes.res)
  ELSE [res |-> Ok, createNewResourceGroup |-> ~checkRes.value,
        name |-> sol.resourceGroupName, location |-> sol.location]

\* fillInAzureConfigs lines 261-349: resource group info from the answer of
\* the helper of the source
ResourceGroupInfo(sol, cfg, targetResourceGroupName, vsWithLocation, source, answer) ==
  LET found(n) == ExistingResourceGroup(n)
      failed(e) == NoResourceGroupInfo(e)
      notFound == failed(UserError("core", "ResourceGroupNotFound"))
  IN IF source = "inputs"
       THEN IF answer = "error"
              THEN IF vsWithLocation
                     THEN [res |-> Ok, createNewResourceGroup |-> TRUE,
                           name |-> targetResourceGroupName, location |-> "eastus"]
                     ELSE failed(CollaboratorError("getResourceGroupInfo"))
            ELSE IF answer = "notFound" THEN notFound
            ELSE found(targetResourceGroupName)
     ELSE IF source = "config" THEN ResourceGroupFromConfig(cfg, answer)
     ELSE IF source = "state"
       THEN ResourceGroupFromState(sol, checkResourceGroupExistence(answer))
     ELSE IF answer = "error" THEN failed(CollaboratorError("askResourceGroupInfo"))
          ELSE IF answer = "new"
            THEN [res |-> Ok, createNewResourceGroup |-> TRUE, name |-> "default-rg",
                  location |-> "eastus"]
          ELSE found("existing-rg")

\* uuidv4().substr(0, 6) in the n-th run of the environment
uuidv4(n) == Suffixes[((n - 1) % Len(Suffixes)) + 1]

\* fillInAzureConfigs lines 359-364
resourceNameSuffix(sol, cfg, minted) ==
  IF cfg.resourceNameSuffix # "" THEN cfg.resourceNameSuffix
  ELSE IF sol.resourceNameSuffix # "" THEN sol.resourceNameSuffix
  ELSE minted

BoolText(b) == IF b THEN "true" ELSE "false"

\* fillInAzureConfigs lines 236-325: 2. check resource group; the helper of
\* the first source that is given is called
ResolveResourceGroup ==
  /\ pc = "resourceGroup"
  /\ \E targetResourceGroupName \in {"", "input-rg"} :
       run' = [run EXCEPT
                 !.targetResourceGroupName = targetResourceGroupName,
                 !.rgSource = ResourceGroupSource(solution, config,
                                                  targetResourceGroupName)]
  /\ pc' = "awaitResourceGroup"
  /\ UNCHANGED <<others, env, solution, slices, runs, prov, conf, result>>

\* fillInAzureConfigs lines 266-367: the helper returns; the resource group
\* and the resourceNameSuffix are written
ResourceGroupReturns ==
  /\ pc = "awaitResourceGroup"
  /\ \E answer \in HelperAnswers(run.rgSource), vsWithLocation \in BOOLEAN :
       LET minted == uuidv4(runs)
           info == ResourceGroupInfo(solution, config, run.targetResourceGroupName,
                                     vsWithLocation, run.rgSource, answer)
           answered == [run EXCEPT !.rgAnswer = answer]
       IN IF IsErr(info.res)
            THEN /\ FillInAzureConfigsFailed(info.res) /\ solution' = solution
                 /\ run' = [answered EXCEPT !.reconcileError = info.res]
            ELSE /\ solution' =
                      [solution EXCEPT
                         !.needCreateResourceGroup = BoolText(info.createNewResourceGroup),
                         !.resourceGroupName = info.name,
                         !.location = info.location,
                         !.resourceNameSuffix = resourceNameSuffix(solution, config, minted)]
                 /\ pc' = "consent" /\ result' = result /\ run' = answered
  /\ UNCHANGED <<others, env, slices, runs, prov, conf>>

\* ---------------------------------------------- askForProvisionConsentNew
\* lines 458-476: which notice, "" when nothing switched
switchedNotice(hasSwitchedM365Tenant, hasSwitchedSubscription) ==
  IF hasSwitchedM365Tenant /\ hasSwitchedSubscription
    THEN "switchedM365AccountAndAzureSubscriptionNotice"
  ELSE IF hasSwitchedM365Tenant THEN "switchedM365AccountNotice"
  ELSE IF hasSwitchedSubscription THEN "switchedAzureSubscriptionNotice"
  ELSE ""

\* lines 469-475: the notice appended to the subscription notice when the bot
\* entry of the state has a resourceId
newBotNotice(hasSwitchedM365Tenant, hasSwitchedSubscription, sl) ==
  IF ~hasSwitchedM365Tenant /\ hasSwitchedSubscription
       /\ sl[BOT].present /\ sl[BOT].resourceId # ""
    THEN "createNewAzureBotNotice"
    ELSE ""

\* lines 452-453, 478-486: the sentences of the accounts; the account of the
\* model has one user name, its M365 token carries no upn
azureAccountInfo == getLocalizedString("core.provision.azureAccount", "azure-user")
azureSubscriptionInfo(sol) ==
  getLocalizedString("core.provision.azureSubscription",
                     IF sol.subscriptionName # "" THEN sol.subscriptionName
                     ELSE sol.subscriptionId)
m365AccountInfo(sol) == getLocalizedString("core.provision.m365Account", sol.teamsAppTenantId)
NoticeSentence(notice) == [key |-> notice, args |-> <<>>]

\* lines 488-498: the sentences of the message, in the order they are joined;
\* none when nothing is shown
accountsInfo_m365First(notice, hasAzureResource, sol) ==
  IF notice = "" /\ ~hasAzureResource THEN <<>>
  ELSE IF notice = ""
    THEN <<m365AccountInfo(sol), azureAccountInfo, azureSubscriptionInfo(sol)>>
  ELSE IF hasAzureResource
    THEN <<NoticeSentence(notice), m365AccountInfo(sol), azureAccountInfo,
           azureSubscriptionInfo(sol)>>
  ELSE <<NoticeSentence(notice), m365AccountInfo(sol)>>
accountsInfo(notice, hasAzureResource, sol) ==
  IF notice = "" /\ ~hasAzureResource THEN <<>>
  ELSE IF notice = ""
    THEN <<azureAccountInfo, azureSubscriptionInfo(sol), m365AccountInfo(sol)>>
  ELSE IF hasAzureResource
    THEN <<NoticeSentence(notice), azureAccountInfo, azureSubscriptionInfo(sol),
           m365AccountInfo(sol)>>
  ELSE <<NoticeSentence(notice), m365AccountInfo(sol)>>

\* lines 508-511
items(hasSwitchedM365Tenant, hasSwitchedSubscription) ==
  IF hasSwitchedM365Tenant \/ hasSwitchedSubscription
    THEN {provisionText, learnMoreText} ELSE {provisionText}

\* where the run goes when the gate returned ok: lines 220-246 and 262
NeedHandleConfigFiles == run.hasSwitchedSubscription \/ run.hasSwitchedM365Tenant
AfterCreateResourceGroup ==
  IF NeedHandleConfigFiles THEN "handleConfigFiles" ELSE "provision"

\* variant: needCreateResourceGroup is not looked at
AfterConsent_noCreate ==
  IF AzureResourcesToProvision(project) THEN AfterCreateResourceGroup ELSE "handleConfigFiles"

AfterConsent ==
  IF AzureResourcesToProvision(project)
    THEN IF solution.needCreateResourceGroup = "true" THEN "createResourceGroup"
         ELSE AfterCreateResourceGroup
    ELSE "handleConfigFiles"

\* lines 452-511: the gate is entered; it returns at once when there is
\* nothing to show
ConsentEnter ==
  /\ pc = "consent"
  /\ LET hasAzureResource == AzureResourcesToProvision(project)
         notice == switchedNotice(run.hasSwitchedM365Tenant, run.hasSwitchedSubscription)
     IN IF notice = "" /\ ~hasAzureResource
          THEN /\ run' = [run EXCEPT !.gate = "ok", !.gateHasAzureResource = FALSE]
               /\ pc' = AfterConsent
          ELSE /\ run' = [run EXCEPT
                             !.gate = "asking",
                             !.gateHasAzureResource = hasAzureResource,
                             !.newBotNotice =
                               newBotNotice(run.hasSwitchedM365Tenant,
                                            run.hasSwitchedSubscription, slices),
                             !.accountsInfo =
                               accountsInfo(notice, hasAzureResource, solution)]
               /\ pc' = "showMessage"
  /\ UNCHANGED <<others, env, solution, slices, runs, prov, conf, result>>

\* what showMessage can hand back: an offered item, any other text, nothing
\* (dialog dismissed), or an error Result
ShowMessageResults(offered) ==
  {[isOk |-> TRUE, value |-> v] : v \in offered \cup {"Cancel", "undefined"}} \cup
  {[isOk |-> FALSE, value |-> "undefined"]}

\* line 521
confirmOf(confirmRes) == IF confirmRes.isOk THEN confirmRes.value ELSE "undefined"

\* variant: an answer other than Provision and Learn more lets the run go on
GateStep_noCancel(confirm) ==
  IF confirm = learnMoreText THEN "openUrl" ELSE "proceed"

\* variant: Learn more is taken as the final answer
GateStep_learnMoreEnds(confirm) ==
  IF confirm # provisionText THEN "cancel" ELSE "proceed"

\* lines 543-552: what one pass of the loop does with the answer
GateStep(confirm) ==
  IF confirm # provisionText
    THEN IF confirm = learnMoreText THEN "openUrl" ELSE "cancel"
    ELSE "proceed"

\* lines 514-554: one pass of the do-while loop
ShowMessage ==
  /\ pc = "showMessage"
  /\ \E confirmRes \in
          ShowMessageResults(items(run.hasSwitchedM365Tenant, run.hasSwitchedSubscription)) :
       LET confirm == confirmOf(confirmRes)
           step == GateStep(confirm)
           asked == [run EXCEPT !.prompts = @ + 1, !.confirm = confirm,
                                !.showMessageFailed = ~confirmRes.isOk,
                                !.declined = confirmRes.isOk /\ confirm # provisionText
                                             /\ confirm # learnMoreText]
       IN /\ (confirm = learnMoreText) => run.urlOpens < MaxLearnMore
          /\ IF step = "openUrl"
               THEN /\ run' = [asked EXCEPT !.urlOpens = @ + 1]
                    /\ pc' = pc /\ result' = result
             ELSE IF step = "cancel"
               THEN /\ run' = [asked EXCEPT !.gate = "err"]
                    /\ Return(UserError("Solution", "CancelProvision"))
             ELSE /\ run' = [asked EXCEPT !.gate = "ok"]
                  /\ pc' = AfterConsent /\ result' = result
  /\ UNCHANGED <<others, env, solution, slices, runs, prov, conf>>

\* lines 220-231: create resource group if needed
CreateResourceGroup ==
  /\ pc = "createResourceGroup"
  /\ \E ok \in BOOLEAN :
       IF ok THEN /\ run' = [run EXCEPT !.rgCreate = "ok"]
                  /\ pc' = AfterCreateResourceGroup /\ result' = result
       ELSE /\ run' = [run EXCEPT !.rgCreate = "err"]
            /\ Return(CollaboratorError("createNewResourceGroup"))
  /\ UNCHANGED <<others, env, solution, slices, runs, prov, conf>>

\* handleConfigFilesWhenSwitchAccount: the files of the environment are backed
\* up, then the Azure parameters are updated; the error of the first step that
\* fails is the result (the tests at 1323-1371 and 1549-1606)
handleConfigFilesWhenSwitchAccount(backupOk, updateOk) ==
  IF ~backupOk THEN CollaboratorError("backupFiles")
  ELSE IF ~updateOk THEN CollaboratorError("updateAzureParameters")
  ELSE Ok

\* variant: the result of the helper is not checked
HandleConfigFilesFailed_ignored(r) == pc' = "provision" /\ result' = result

\* lines 243-245 and 271-273
HandleConfigFilesFailed(r) == Return(r)

\* lines 233-246 and 262-273: handleConfigFilesWhenSwitchAccount is awaited;
\* run.configFiles keeps the step that failed
HandleConfigFiles ==
  /\ pc = "handleConfigFiles"
  /\ \E backupOk \in BOOLEAN, updateOk \in BOOLEAN :
       LET r == handleConfigFilesWhenSwitchAccount(backupOk, updateOk)
       IN IF IsErr(r)
            THEN /\ run' = [run EXCEPT !.configFiles = r.from]
                 /\ HandleConfigFilesFailed(r)
            ELSE /\ run' = [run EXCEPT !.configFiles = "ok"]
                 /\ pc' = "provision" /\ result' = result
  /\ UNCHANGED <<others, env, solution, slices, runs, prov, conf>>

\* ------------------------------------------------------ executeConcurrently
Range(seq) == {seq[i] : i \in 1..Len(seq)}

\* the plugins of the project that take part in a phase (lines 287-288, 360-361)
provisionThunks == SelectSeq(project.plugins, ImplementsProvision)
configureResourceThunks == SelectSeq(project.plugins, ImplementsConfigure)

\* every thunk is started, and the results of all of them are awaited
AllReturned(calls, thunks) == \A p \in Range(thunks) : calls[p] \in {"ok", "err"}

\* the aggregate of the awaited results
ExecutionKind(calls, thunks) ==
  IF \A p \in Range(thunks) : calls[p] = "ok" THEN "success"
  ELSE IF \A p \in Range(thunks) : calls[p] = "err" THEN "failure"
  ELSE "partialSuccess"

\* the error a plugin call returns
PluginError(p, taskName) == [kind |-> "UserError", name |-> taskName, from |-> p]

\* the representative error: the first failure in the order of the thunks
ExecutionError(calls, thunks, taskName) ==
  LET failed == SelectSeq(thunks, LAMBDA p : calls[p] = "err")
  IN PluginError(Head(failed), taskName)

\* variant: only a phase in which every plugin failed stops the run
ProvisionPhaseFailed_failureOnly(kind) == kind = "failure"

\* ------------------------------------------------------- provision phase
\* lines 311-314: the provision phase stops the run
ProvisionPhaseFailed(kind) == kind = "failure" \/ kind = "partialSuccess"

\* variant: the host type alone decides, the resources of the project are not
\* looked at
NeedDeployArmTemplates_hostTypeOnly == project.isAzure /\ ~run.isForUT

\* lines 325-329: call deployArmTemplates
NeedDeployArmTemplates == AzureResourcesToProvision(project) /\ ~run.isForUT
\* lines 341-342: call aad.setApplicationInContext
NeedAadContext == AAD \in Range(project.plugins) /\ AadHasExecuteUserTask
AfterDeploy == IF NeedAadContext THEN "aadContext" ELSE "configure"
\* variant: the run goes from the provision phase past the template deployment
AfterProvision_skipsDeploy == AfterDeploy

AfterProvision == IF NeedDeployArmTemplates THEN "deployArmTemplates" ELSE AfterDeploy

\* lines 285-311: the flag is reset and every provisionResource thunk is
\* started; a thunk creates the entry of its plugin before the call
ProvisionLaunch ==
  /\ pc = "provision"
  /\ solution' = [solution EXCEPT !.provisionSucceeded = "false"]
  /\ slices' = [p \in AllPlugins |->
                  IF p \in Range(provisionThunks) /\ ~slices[p].present
                    THEN NewSlice ELSE slices[p]]
  /\ prov' = [p \in AllPlugins |->
                IF p \in Range(provisionThunks) THEN "running" ELSE "idle"]
  /\ pc' = "awaitProvision"
  /\ UNCHANGED <<others, env, runs, run, conf, result>>

\* plugin.provisionResource of one plugin returns; on success it has written
\* its state into its own entry
PluginProvisionReturns(p) ==
  /\ pc = "awaitProvision"
  /\ prov[p] = "running"
  /\ \E ok \in BOOLEAN :
       IF ok THEN /\ prov' = [prov EXCEPT ![p] = "ok"]
                  /\ slices' = [slices EXCEPT ![p].provisioned = TRUE]
       ELSE /\ prov' = [prov EXCEPT ![p] = "err"]
            /\ slices' = slices
  /\ UNCHANGED <<others, env, solution, runs, pc, run, conf, result>>

\* variant: the run reports a phase error of its own instead of the plugin's
ProvisionResultError_generic == SystemError("Solution", "ProvisionFailed")

\* line 313: the error the run returns when the provision phase failed
ProvisionResultError == ExecutionError(prov, provisionThunks, "provisionResource")

\* lines 311-322: the awaited result of the provision phase
ProvisionFinish ==
  /\ pc = "awaitProvision"
  /\ AllReturned(prov, provisionThunks)
  /\ LET kind == ExecutionKind(prov, provisionThunks)
     IN /\ run' = [run EXCEPT !.provisionKind = kind]
        /\ IF ProvisionPhaseFailed(kind)
             THEN Return(ProvisionResultError)
             ELSE pc' = AfterProvision /\ result' = result
  /\ UNCHANGED <<others, env, solution, slices, runs, prov, conf>>

\* lines 330-331: deployArmTemplates is called on a copy of the state
DeployArmTemplatesStart ==
  /\ pc = "deployArmTemplates"
  /\ run' = [run EXCEPT !.arm = "running"]
  /\ pc' = "awaitDeployArmTemplates"
  /\ UNCHANGED <<others, env, solution, slices, runs, prov, conf, result>>

\* _.assign(envInfo.state, update): the outputs of the templates, for the
\* solution and for every plugin of the project
mergeTemplateOutputs(sl) ==
  [p \in AllPlugins |->
     IF p \in Range(project.plugins)
       THEN [(IF sl[p].present THEN sl[p] ELSE NewSlice)
               EXCEPT !.output = TRUE,
                      !.resourceId = IF p = BOT THEN "bot-service" ELSE @]
       ELSE sl[p]]

\* lines 331-338: deployArmTemplates returns
DeployArmTemplatesReturns ==
  /\ pc = "awaitDeployArmTemplates"
  /\ \E ok \in BOOLEAN :
       IF ok
         THEN /\ run' = [run EXCEPT !.arm = "merged"]
              /\ slices' = mergeTemplateOutputs(slices)
              /\ solution' = [solution EXCEPT !.armTemplateOutput = TRUE]
              /\ pc' = AfterDeploy /\ result' = result
         ELSE /\ run' = [run EXCEPT !.arm = "err"]
              /\ slices' = slices /\ solution' = solution
              /\ Return(CollaboratorError("deployArmTemplates"))
  /\ UNCHANGED <<others, env, runs, prov, conf>>

\* lines 340-358: aad.setApplicationInContext
AadSetApplicationInContext ==
  /\ pc = "aadContext"
  /\ \E ok \in BOOLEAN :
       IF ok THEN /\ run' = [run EXCEPT !.aadContext = "ok"]
                  /\ pc' = "configure" /\ result' = result
       ELSE /\ run' = [run EXCEPT !.aadContext = "err"]
            /\ Return(CollaboratorError("setApplicationInContext"))
  /\ UNCHANGED <<others, env, solution, slices, runs, prov, conf>>

\* ------------------------------------------------------- configure phase
\* lines 387-390: the configure phase stops the run
ConfigurePhaseFailed(kind) == kind = "failure" \/ kind = "partialSuccess"

\* lines 360-383: every configureResource thunk is started
ConfigureLaunch ==
  /\ pc = "configure"
  /\ slices' = [p \in AllPlugins |->
                  IF p \in Range(configureResourceThunks) /\ ~slices[p].present
                    THEN NewSlice ELSE slices[p]]
  /\ conf' = [p \in AllPlugins |->
                IF p \in Range(configureResourceThunks) THEN "running" ELSE "idle"]
  /\ pc' = "awaitConfigure"
  /\ UNCHANGED <<others, env, solution, runs, run, prov, result>>

\* plugin.configureResource of one plugin returns
PluginConfigureReturns(p) ==
  /\ pc = "awaitConfigure"
  /\ conf[p] = "running"
  /\ \E ok \in BOOLEAN :
       IF ok THEN /\ conf' = [conf EXCEPT ![p] = "ok"]
                  /\ slices' = [slices EXCEPT ![p].configured = TRUE]
       ELSE /\ conf' = [conf EXCEPT ![p] = "err"]
            /\ slices' = slices
  /\ UNCHANGED <<others, env, solution, runs, pc, run, prov, result>>

\* lines 380-438: the awaited result of the configure phase, the end of the run
ConfigureFinish ==
  /\ pc = "awaitConfigure"
  /\ AllReturned(conf, configureResourceThunks)
  /\ LET kind == ExecutionKind(conf, configureResourceThunks)
     IN /\ run' = [run EXCEPT !.configureKind = kind]
        /\ IF ConfigurePhaseFailed(kind)
             THEN /\ Return(ExecutionError(conf, configureResourceThunks,
                                           "configureResource"))
                  /\ solution' = solution
             ELSE /\ solution' = [solution EXCEPT !.armTemplateOutput = FALSE,
                                                  !.provisionSucceeded = "true"]
                  /\ Return(Ok)
  /\ UNCHANGED <<others, env, slices, runs, prov, conf>>

\* ------------------------------------------- useUserSetEnv (envInfoLoader)
\* number of calls of useUserSetEnv on the project in one behaviour
MaxLoads == 2

\* the environment names a caller asks for; environmentManager.getLocalEnvName()
EnvNames == {"local", "dev", "staging"}
LocalEnvName == "local"

ProjectEnvNotExistError(e) ==
  [kind |-> "UserError", name |-> "ProjectEnvNotExistError", from |-> "core", env |-> e]

\* return err(error) / return ok(env)
LoaderReturns(l, r, v) == [l EXCEPT !.pc = "returned", !.result = r, !.value = v]

\* useUserSetEnv(projectPath, env) is called
UseUserSetEnv ==
  /\ loader.pc \in {"idle", "returned"}
  /\ loader.loads < MaxLoads
  /\ \E e \in EnvNames :
       loader' = [NoLoad(loader.envs) EXCEPT !.loads = loader.loads + 1,
                                            !.pc = "checkEnvExist", !.requested = e,
                                            !.existedBefore = e \in loader.envs]
  /\ UNCHANGED <<provisioning, mig, store, plug, before, mw, dbg, ngrok, envState>>

\* variant: a missing environment of any name is created
AfterCheckEnvExist_createsAny(l) == [l EXCEPT !.pc = "createLocalEnv"]

\* lines 350-361: the environment is reported missing by the first check
AfterCheckEnvExist(l) ==
  IF l.requested = LocalEnvName THEN [l EXCEPT !.pc = "createLocalEnv"]
  ELSE LoaderReturns(l, ProjectEnvNotExistError(l.requested), "")

\* lines 344-349: the first checkEnvExist returns
CheckEnvExist ==
  /\ loader.pc = "checkEnvExist"
  /\ \E checkOk \in BOOLEAN :
       loader' = IF ~checkOk
                   THEN LoaderReturns(loader, CollaboratorError("checkEnvExist"), "")
                 ELSE IF loader.requested \in loader.envs
                   THEN LoaderReturns(loader, Ok, loader.requested)
                 ELSE AfterCheckEnvExist(loader)
  /\ UNCHANGED <<provisioning, mig, store, plug, before, mw, dbg, ngrok, envState>>

\* line 353: createLocalEnv returns; its result is not looked at, the
\* environment is there or it is not
CreateLocalEnv ==
  /\ loader.pc = "createLocalEnv"
  /\ \E created \in BOOLEAN :
       loader' = [loader EXCEPT
                    !.envs = IF created THEN @ \cup {loader.requested} ELSE @,
                    !.createLocalEnvCalls = @ + 1,
                    !.pc = "checkEnvExistAgain"]
  /\ UNCHANGED <<provisioning, mig, store, plug, before, mw, dbg, ngrok, envState>>

\* lines 354-361: the second checkEnvExist returns
CheckEnvExistAgain ==
  /\ loader.pc = "checkEnvExistAgain"
  /\ \E checkOk \in BOOLEAN :
       loader' = IF ~checkOk
                   THEN LoaderReturns(loader, CollaboratorError("checkEnvExist"), "")
                 ELSE IF loader.requested \in loader.envs
                   THEN LoaderReturns(loader, Ok, loader.requested)
                 ELSE LoaderReturns(loader, ProjectEnvNotExistError(loader.requested), "")
  /\ UNCHANGED <<provisioning, mig, store, plug, before, mw, dbg, ngrok, envState>>

\* a project with any set of environments, and no provisioning run
InitLoader ==
  /\ project = SpfxProject
  /\ isSwitchAccountEnabled = TRUE
  /\ config = [subscriptionId |-> "", resourceGroupName |-> "", resourceNameSuffix |-> ""]
  /\ solution = EmptySolution
  /\ slices = [p \in AllPlugins |-> EmptySlice]
  /\ runs = 0
  /\ pc = "idle"
  /\ run = NewRun
  /\ prov = Idle
  /\ conf = Idle
  /\ result = NoResult
  /\ \E envs \in SUBSET EnvNames : loader = NoLoad(envs)
  /\ mig = NoMigration
  /\ store = NoStore
  /\ plug = NoPlugin
  /\ before = NotInUse
  /\ mw = NotInUse
  /\ dbg = NotInUse
  /\ ngrok = NotInUse
  /\ envState = NotInUse

NextLoader ==
  \/ UseUserSetEnv
  \/ CheckEnvExist
  \/ CreateLocalEnv
  \/ CheckEnvExistAgain

SpecLoader == InitLoader /\ [][NextLoader]_vars

\* ------------------------------------- project settings (component/migrate.ts)
\* largest number of entries of activeResourcePlugins of a legacy settings object
MaxPlugins == 2

\* V1PluginNames the conversions look at, and two they do not: the manifest
\* plugin, which the downgrade always lists, and simple auth, which it never does
LegacyPluginNames ==
  {AAD, FE, SPFX, "fx-resource-bot", "fx-resource-identity", "fx-resource-key-vault",
   "fx-resource-azure-sql", "fx-resource-apim", "fx-resource-function", APPST,
   "fx-resource-simple-auth"}

MessageExtensionNewUIItemId == "MessageExtension"

\* one entry of settings.components; "undefined", "" and has... = FALSE are
\* absent members, lists whose order the conversions never look at are sets
Component(name) ==
  [name |-> name, hosting |-> "", provision |-> "undefined", build |-> "undefined",
   folder |-> "undefined", artifactFolder |-> "", sso |-> "undefined",
   hasCapabilities |-> FALSE, capabilities |-> {},
   hasConnections |-> FALSE, connections |-> {},
   scenario |-> "", functionNames |-> <<>>]

\* settings.solutionSettings, settings.pluginSettings when they are absent
NoSolutionSettings ==
  [defined |-> FALSE, name |-> "", version |-> "", hostType |-> "", azureResources |-> {},
   hasActiveResourcePlugins |-> FALSE, activeResourcePlugins |-> {},
   hasCapabilities |-> FALSE, capabilities |-> {}]
NoPluginSettings ==
  [defined |-> FALSE, bot |-> FALSE, hostType |-> "", hasCapabilities |-> FALSE,
   capabilities |-> {}]

\* the index of the first component of the name, 0 when there is none
IndexOfComponent(components, name) ==
  IF \E i \in 1..Len(components) : components[i].name = name
    THEN CHOOSE i \in 1..Len(components) :
           /\ components[i].name = name
           /\ \A j \in 1..(i - 1) : components[j].name # name
    ELSE 0

\* getComponent(settings, name) !== undefined
HasComponent(settings, name) ==
  settings.hasComponents /\ IndexOfComponent(settings.components, name) # 0

\* getComponent(settings, name), for a name that HasComponent
getComponent(settings, name) ==
  settings.components[IndexOfComponent(settings.components, name)]

\* isVSProject(settings)
isVSProject(settings) == settings.programmingLanguage = "csharp"

\* lines 204-214 and 267-278: the hosting component gets the connection, and
\* is added when the graph does not have it
ConnectHosting_connectsOnly(components, hostingComponent, connection, scenario) ==
  LET i == IndexOfComponent(components, hostingComponent)
  IN IF i # 0
       THEN [components EXCEPT ![i].hasConnections = TRUE,
                               ![i].connections = @ \cup {connection}]
       ELSE components
ConnectHosting(components, hostingComponent, connection, scenario) ==
  LET i == IndexOfComponent(components, hostingComponent)
  IN IF i # 0
       THEN [components EXCEPT ![i].hasConnections = TRUE,
                               ![i].connections = @ \cup {connection}]
       ELSE Append(components,
                   [Component(hostingComponent) EXCEPT
                      !.hasConnections = TRUE, !.connections = {connection},
                      !.provision = "true", !.scenario = scenario])

\* ensureComponentConnections(settingsV3): the connections of the hosting
\* components are set to the components of the graph they serve; nothing else
\* of the graph changes
ComponentConnections(name) ==
  IF name \in {"azure-web-app", "azure-function"}
    THEN {"identity", "azure-sql", "key-vault", "aad-app", "teams-tab", "teams-bot",
          "teams-api"}
  ELSE IF name = "apim" THEN {"teams-tab", "teams-bot"}
  ELSE {}
ensureComponentConnections(components) ==
  LET present == {components[i].name : i \in 1..Len(components)}
  IN [i \in 1..Len(components) |->
        IF ComponentConnections(components[i].name) # {}
          THEN [components[i] EXCEPT
                  !.hasConnections = TRUE,
                  !.connections = ComponentConnections(components[i].name) \cap present]
          ELSE components[i]]

\* line 170: the conversion runs only on settings that have solutionSettings and
\* no component yet
NeedsUpgrade(settingsV2) ==
  /\ settingsV2.solutionSettings.defined
  /\ (~settingsV2.hasComponents \/ Len(settingsV2.components) = 0)

\* lines 173, 190/200 and 234: .includes is called on activeResourcePlugins
\* and on capabilities without a test that they are there: a TypeError
UpgradeThrows(settingsV2) ==
  LET sol == settingsV2.solutionSettings
  IN /\ NeedsUpgrade(settingsV2)
     /\ \/ ~sol.hasActiveResourcePlugins
        \/ /\ ~sol.hasCapabilities
           /\ (FE \in sol.activeResourcePlugins \/ "fx-resource-bot" \in sol.activeResourcePlugins)

\* lines 231-238: the bot plugin's capabilities, with "message-extension"
\* pushed when the solution has the capability and the list does not
HasBotCapabilities(settingsV2) ==
  /\ settingsV2.pluginSettings.defined
  /\ settingsV2.pluginSettings.bot
  /\ settingsV2.pluginSettings.hasCapabilities
PushesMessageExtension(settingsV2) ==
  /\ MessageExtensionNewUIItemId \in settingsV2.solutionSettings.capabilities
  /\ ~(/\ HasBotCapabilities(settingsV2)
        /\ "message-extension" \in settingsV2.pluginSettings.capabilities)
botCapabilities(settingsV2) ==
  LET listed == IF HasBotCapabilities(settingsV2)
                  THEN settingsV2.pluginSettings.capabilities ELSE {}
  IN IF PushesMessageExtension(settingsV2)
       THEN [has |-> TRUE, list |-> listed \cup {"message-extension"}]
       ELSE [has |-> HasBotCapabilities(settingsV2), list |-> listed]

\* the settings object of the caller after convertProjectSettingsV2ToV3
\* returned: line 237 takes the list out of settingsV2.pluginSettings, not out
\* of the clone, and line 238 pushes to it
SettingsAfterUpgrade(settingsV2) ==
  IF /\ NeedsUpgrade(settingsV2)
     /\ ~UpgradeThrows(settingsV2)
     /\ "fx-resource-bot" \in settingsV2.solutionSettings.activeResourcePlugins
     /\ PushesMessageExtension(settingsV2)
     /\ HasBotCapabilities(settingsV2)
    THEN [settingsV2 EXCEPT !.pluginSettings.capabilities = @ \cup {"message-extension"}]
    ELSE settingsV2

\* lines 180-215: the tab of a frontend-hosting project and its hosting component
FrontendComponents(settingsV2, components) ==
  LET sol == settingsV2.solutionSettings
      isVS == isVSProject(settingsV2)
      hostingComponent == IF isVS THEN "azure-web-app" ELSE "azure-storage"
      teamsTab == [Component("teams-tab") EXCEPT
                     !.hosting = hostingComponent, !.build = "true",
                     !.provision = IF isVS THEN "false" ELSE "true",
                     !.folder = IF isVS THEN "" ELSE "tabs",
                     !.artifactFolder = IF isVS THEN "bin\\Release\\net6.0\\win-x86\\publish" ELSE "",
                     !.sso = BoolText("TabSSO" \in sol.capabilities)]
  IN ConnectHosting(Append(components, teamsTab), hostingComponent, "teams-tab", "")

\* lines 216-229: the tab of an SPFx project and the spfx component
SpfxComponents(components) ==
  Append(Append(components,
                [Component("teams-tab") EXCEPT !.hosting = "spfx", !.build = "true",
                                            !.provision = "true", !.folder = "SPFx"]),
         [Component("spfx") EXCEPT !.provision = "true"])

\* lines 230-283: the bot, its hosting component and the bot service
BotComponents(settingsV2, components) ==
  LET sol == settingsV2.solutionSettings
      isVS == isVSProject(settingsV2)
      caps == botCapabilities(settingsV2)
      hostingComponent == IF /\ settingsV2.pluginSettings.defined
                             /\ settingsV2.pluginSettings.bot
                             /\ settingsV2.pluginSettings.hostType = "azure-functions"
                            THEN "azure-function" ELSE "azure-web-app"
      teamsBot == [Component("teams-bot") EXCEPT
                     !.hosting = hostingComponent, !.build = "true",
                     !.provision = IF isVS THEN "undefined" ELSE "true",
                     !.folder = IF isVS THEN "" ELSE "bot",
                     !.artifactFolder = IF isVS THEN "bin\\Release\\net6.0\\win-x86\\publish" ELSE "",
                     !.hasCapabilities = caps.has, !.capabilities = caps.list,
                     !.sso = BoolText("BotSSO" \in sol.capabilities)]
  IN Append(ConnectHosting(Append(components, teamsBot), hostingComponent, "teams-bot", "Bot"),
            [Component("bot-service") EXCEPT !.provision = "true"])

\* lines 306-318: the api and the function app it is hosted on
ApiComponents(settingsV2, components) ==
  Append(Append(components,
                [Component("teams-api") EXCEPT
                   !.hosting = "azure-function", !.build = "true", !.folder = "api",
                   !.functionNames =
                     <<IF settingsV2.defaultFunctionName # ""
                         THEN settingsV2.defaultFunctionName ELSE "getUserProfile">>]),
         [Component("azure-function") EXCEPT !.scenario = "Api"])

\* lines 171-320: the component graph of a legacy settings object that needs
\* the upgrade and does not make it throw
UpgradedComponents(settingsV2) ==
  LET plugins == settingsV2.solutionSettings.activeResourcePlugins
      c1 == IF AAD \in plugins
              THEN <<[Component("aad-app") EXCEPT !.provision = "true"]>> ELSE <<>>
      c2 == IF FE \in plugins THEN FrontendComponents(settingsV2, c1) ELSE c1
      c3 == IF SPFX \in plugins THEN SpfxComponents(c2) ELSE c2
      c4 == IF "fx-resource-bot" \in plugins THEN BotComponents(settingsV2, c3) ELSE c3
      c5 == IF "fx-resource-identity" \in plugins THEN Append(c4, Component("identity")) ELSE c4
      c6 == IF "fx-resource-key-vault" \in plugins THEN Append(c5, Component("key-vault")) ELSE c5
      c7 == IF "fx-resource-azure-sql" \in plugins
              THEN Append(c6, [Component("azure-sql") EXCEPT !.provision = "true"]) ELSE c6
      c8 == IF "fx-resource-apim" \in plugins
              THEN Append(c7, [Component("apim") EXCEPT !.provision = "true"]) ELSE c7
      c9 == IF "fx-resource-function" \in plugins THEN ApiComponents(settingsV2, c8) ELSE c8
  IN ensureComponentConnections(c9)

\* the outcome of a conversion: the returned settings, or a thrown TypeError
Returned(settings) == [threw |-> FALSE, value |-> settings]
Thrown == [threw |-> TRUE, value |-> [name |-> "TypeError"]]

\* convertProjectSettingsV2ToV3(settingsV2)
convertProjectSettingsV2ToV3_appends(settingsV2) ==
  IF ~settingsV2.solutionSettings.defined THEN Returned(settingsV2)
  ELSE IF UpgradeThrows(settingsV2) THEN Thrown
  ELSE Returned([settingsV2 EXCEPT
                   !.hasComponents = TRUE,
                   !.components = settingsV2.components \o UpgradedComponents(settingsV2)])
convertProjectSettingsV2ToV3(settingsV2) ==
  IF ~NeedsUpgrade(settingsV2) THEN Returned(settingsV2)
  ELSE IF UpgradeThrows(settingsV2) THEN Thrown
  ELSE Returned([settingsV2 EXCEPT !.hasComponents = TRUE,
                                   !.components = UpgradedComponents(settingsV2)])

\* hasAzureResourceV3(settingsV3): some component of the graph is an Azure resource
hasAzureResourceV3(settingsV3) ==
  \E i \in 1..Len(settingsV3.components) :
    settingsV3.components[i].name \in
      {"apim", "azure-web-app", "azure-function", "identity", "key-vault", "azure-sql",
       "azure-storage"}

\* lines 341-411: what the components add to the legacy lists
PluginsOfComponents(settingsV3) ==
  LET has(name) == HasComponent(settingsV3, name)
  IN (IF hasAzureResourceV3(settingsV3) THEN {"fx-resource-api-connector"} ELSE {})
     \cup (IF has("aad-app") THEN {AAD} ELSE {})
     \cup (IF has("teams-tab")
            THEN IF getComponent(settingsV3, "teams-tab").hosting = "spfx" THEN {SPFX} ELSE {FE}
            ELSE {})
     \cup (IF has("teams-bot") THEN {"fx-resource-bot"} ELSE {})
     \cup (IF has("identity") THEN {"fx-resource-identity"} ELSE {})
     \cup (IF has("key-vault") THEN {"fx-resource-key-vault"} ELSE {})
     \cup (IF has("azure-sql") THEN {"fx-resource-azure-sql"} ELSE {})
     \cup (IF has("apim") THEN {"fx-resource-apim"} ELSE {})
     \cup (IF has("teams-api") THEN {"fx-resource-function"} ELSE {})
CapabilitiesOfComponents(settingsV3) ==
  LET has(name) == HasComponent(settingsV3, name)
      teamsTab == getComponent(settingsV3, "teams-tab")
      teamsBot == getComponent(settingsV3, "teams-bot")
      isBot == has("teams-bot")
                 /\ teamsBot.capabilities \cap {"bot", "notification", "command-response"} # {}
  IN (IF has("teams-tab") THEN {"Tab"} ELSE {})
     \cup (IF has("teams-tab") /\ teamsTab.sso = "true" THEN {"TabSSO"} ELSE {})
     \cup (IF isBot THEN {"Bot"} ELSE {})
     \cup (IF isBot /\ teamsBot.sso = "true" THEN {"BotSSO"} ELSE {})
     \cup (IF has("teams-bot") /\ "message-extension" \in teamsBot.capabilities
            THEN {MessageExtensionNewUIItemId} ELSE {})
AzureResourcesOfComponents(settingsV3) ==
  LET has(name) == HasComponent(settingsV3, name)
  IN (IF has("key-vault") THEN {"keyvault"} ELSE {})
     \cup (IF has("azure-sql") THEN {"sql"} ELSE {})
     \cup (IF has("apim") THEN {"apim"} ELSE {})
     \cup (IF has("teams-api") THEN {"function"} ELSE {})

\* convertProjectSettingsV3ToV2(settingsV3): the components stay in the clone,
\* the solution settings are replaced (lines 329-340)
convertProjectSettingsV3ToV2(settingsV3) ==
  IF ~(settingsV3.hasComponents /\ Len(settingsV3.components) > 0) THEN settingsV3
  ELSE
    LET teamsBot == getComponent(settingsV3, "teams-bot")
        teamsApi == getComponent(settingsV3, "teams-api")
    IN [settingsV3 EXCEPT
          !.solutionSettings =
            [defined |-> TRUE, name |-> "fx-solution-azure", version |-> "1.0.0",
             hostType |-> IF hasAzureResourceV3(settingsV3) THEN "Azure" ELSE "SPFx",
             azureResources |-> AzureResourcesOfComponents(settingsV3),
             hasActiveResourcePlugins |-> TRUE,
             activeResourcePlugins |->
               {"fx-resource-local-debug", APPST, "fx-resource-cicd"}
                 \cup PluginsOfComponents(settingsV3),
             hasCapabilities |-> TRUE,
             capabilities |-> CapabilitiesOfComponents(settingsV3)],
          !.pluginSettings =
            IF HasComponent(settingsV3, "teams-bot")
              THEN [defined |-> TRUE, bot |-> TRUE,
                    hostType |-> IF teamsBot.hosting = "azure-web-app"
                                   THEN "app-service" ELSE "azure-function",
                    hasCapabilities |-> teamsBot.hasCapabilities,
                    capabilities |-> teamsBot.capabilities]
              ELSE @,
          !.defaultFunctionName =
            IF HasComponent(settingsV3, "teams-api")
              THEN IF Len(teamsApi.functionNames) > 0
                     THEN teamsApi.functionNames[1] ELSE "getUserProfile"
              ELSE @]

\* the legacy settings objects the conversions are run on
MaxCapabilities == 2
CapabilityNames == {"Tab", "TabSSO", "BotSSO", MessageExtensionNewUIItemId}
UpTo(S, n) == {T \in SUBSET S : Cardinality(T) <= n}
LegacySolutionSettings ==
  {NoSolutionSettings}
    \cup {[defined |-> TRUE, name |-> "fx-solution-azure", version |-> "1.0.0",
           hostType |-> "Azure", azureResources |-> {},
           hasActiveResourcePlugins |-> hasPlugins, activeResourcePlugins |-> plugins,
           hasCapabilities |-> hasCaps, capabilities |-> caps] :
            hasPlugins \in BOOLEAN, plugins \in UpTo(LegacyPluginNames, MaxPlugins),
            hasCaps \in BOOLEAN, caps \in UpTo(CapabilityNames, MaxCapabilities)}
LegacyPluginSettings ==
  {NoPluginSettings}
    \cup {[defined |-> TRUE, bot |-> TRUE, hostType |-> hostType,
           hasCapabilities |-> hasCaps, capabilities |-> caps] :
            hostType \in {"app-service", "azure-functions"},
            hasCaps \in BOOLEAN, caps \in {{}, {"bot"}, {"bot", "message-extension"}}}
LegacySettings ==
  {settings \in [programmingLanguage : {"javascript", "csharp"},
                 solutionSettings : LegacySolutionSettings,
                 pluginSettings : LegacyPluginSettings,
                 defaultFunctionName : {"", "myFunc"},
                 hasComponents : {FALSE},
                 components : {<<>>}] :
     \* a list that is absent has no entries
     /\ settings.solutionSettings.hasActiveResourcePlugins
          \/ settings.solutionSettings.activeResourcePlugins = {}
     /\ settings.solutionSettings.hasCapabilities
          \/ settings.solutionSettings.capabilities = {}
     /\ settings.pluginSettings.hasCapabilities \/ settings.pluginSettings.capabilities = {}}


\* a caller holds a settings object and runs the conversions on it
NewMigration(settings) ==
  LET Pending == [threw |-> FALSE, value |-> [name |-> "pending"]]
  IN [pc |-> "start", original |-> settings, settings |-> settings,
      upgraded |-> Pending, again |-> Pending, downgraded |-> Pending,
      roundTrip |-> Pending]

\* upgraded = convertProjectSettingsV2ToV3(settings)
Upgrade ==
  /\ mig.pc = "start"
  /\ mig' = [mig EXCEPT !.pc = "upgraded",
                        !.upgraded = convertProjectSettingsV2ToV3(mig.settings),
                        !.settings = SettingsAfterUpgrade(mig.settings)]
  /\ UNCHANGED <<provisioning, loader, store, plug, before, mw, dbg, ngrok, envState>>

\* again = convertProjectSettingsV2ToV3(upgraded)
UpgradeAgain ==
  /\ mig.pc = "upgraded"
  /\ ~mig.upgraded.threw
  /\ mig' = [mig EXCEPT !.pc = "upgradedAgain",
                        !.again = convertProjectSettingsV2ToV3(mig.upgraded.value)]
  /\ UNCHANGED <<provisioning, loader, store, plug, before, mw, dbg, ngrok, envState>>

\* downgraded = convertProjectSettingsV3ToV2(upgraded)
Downgrade ==
  /\ mig.pc = "upgraded"
  /\ ~mig.upgraded.threw
  /\ mig' = [mig EXCEPT !.pc = "downgraded",
                        !.downgraded = Returned(convertProjectSettingsV3ToV2(mig.upgraded.value))]
  /\ UNCHANGED <<provisioning, loader, store, plug, before, mw, dbg, ngrok, envState>>

\* roundTrip = convertProjectSettingsV2ToV3(downgraded)
UpgradeDowngraded ==
  /\ mig.pc = "downgraded"
  /\ mig' = [mig EXCEPT !.pc = "roundTrip",
                        !.roundTrip = convertProjectSettingsV2ToV3(mig.downgraded.value)]
  /\ UNCHANGED <<provisioning, loader, store, plug, before, mw, dbg, ngrok, envState>>

InitMigrate ==
  /\ project = SpfxProject
  /\ isSwitchAccountEnabled = TRUE
  /\ config = [subscriptionId |-> "", resourceGroupName |-> "", resourceNameSuffix |-> ""]
  /\ solution = EmptySolution
  /\ slices = [p \in AllPlugins |-> EmptySlice]
  /\ runs = 0
  /\ pc = "idle"
  /\ run = NewRun
  /\ prov = Idle
  /\ conf = Idle
  /\ result = NoResult
  /\ loader = NoLoad({"dev"})
  /\ \E settings \in LegacySettings : mig = NewMigration(settings)
  /\ store = NoStore
  /\ plug = NoPlugin
  /\ before = NotInUse
  /\ mw = NotInUse
  /\ dbg = NotInUse
  /\ ngrok = NotInUse
  /\ envState = NotInUse

NextMigrate ==
  \/ Upgrade
  \/ UpgradeAgain
  \/ Downgrade
  \/ UpgradeDowngraded

SpecMigrate == InitMigrate /\ [][NextMigrate]_vars

\* ------------------------- environment state at rest (writeEnvState, loadEnvInfo)
\* values are strings over the digits 0..MaxDigit, of at most MaxValueLen digits
MaxDigit == 2
MaxValueLen == 2
Values == UNION {[1..n -> 0..MaxDigit] : n \in 0..MaxValueLen}

\* the key of a project is derived from its projectId
ProjectIds == {"project-1", "project-2"}
DerivedKey(projectId) == IF projectId = "project-1" THEN 1 ELSE 2

\* the state of the test: one plugin with a secret (clientSecret) and a plain
\* value (clientId); a key is secret by its name
IsSecret(name) == name = "clientSecret"

\* the plain text of a cipher text under a key
Decipher_sameDirection(key, hex) ==
  [i \in 1..Len(hex) |-> (hex[i] + key) % (MaxDigit + 1)]
Decipher(key, hex) ==
  [i \in 1..Len(hex) |-> (hex[i] + (MaxDigit + 1) - key) % (MaxDigit + 1)]

\* encrypt(v): a crypto_ token; the tag lets decrypt tell a token of another key
Tag(key, v) ==
  LET RECURSIVE Sum(_)
      Sum(i) == IF i = 0 THEN 0 ELSE v[i] + Sum(i - 1)
  IN (Sum(Len(v)) + key * (Len(v) + 1)) % (MaxDigit + 1)
encrypt(key, v) ==
  [prefix |-> "crypto_",
   hex |-> [i \in 1..Len(v) |-> (v[i] + key) % (MaxDigit + 1)],
   tag |-> Tag(key, v)]

\* decrypt(token): the plain text, or DecryptionError
DecryptionError == [name |-> "DecryptionError", source |-> "Core"]
decrypt(key, token) ==
  LET v == Decipher(key, token.hex)
  IN IF token.prefix = "crypto_" /\ Tag(key, v) = token.tag
       THEN [result |-> Ok, value |-> v]
       ELSE [result |-> DecryptionError, value |-> <<>>]

\* writeEnvState(state, projectPath, cryptoProvider, envName): secret values are
\* written as tokens, the other values as they are
writeEnvState(state, key) ==
  [written |-> TRUE,
   envState |-> [aad |-> [name \in {n \in DOMAIN state.aad : ~IsSecret(n)} |->
                            state.aad[name]]],
   userData |-> [aad |-> [name \in {n \in DOMAIN state.aad : IsSecret(n)} |->
                            encrypt(key, state.aad[name])]]]

\* loadEnvInfo(projectPath, cryptoProvider, envName): the values of the
\* state file with the decrypted secrets; a token that does not decrypt fails it
loadEnvInfo(files, key) ==
  LET secrets == [name \in DOMAIN files.userData.aad |->
                    decrypt(key, files.userData.aad[name])]
  IN IF \E name \in DOMAIN secrets : secrets[name].result # Ok
       THEN [result |-> DecryptionError]
       ELSE [result |-> Ok,
             state |-> [aad |-> [name \in DOMAIN files.envState.aad \cup DOMAIN secrets |->
                                   IF name \in DOMAIN secrets
                                     THEN secrets[name].value
                                     ELSE files.envState.aad[name]]]]

NewStore(projectId, state) ==
  [pc |-> "ready", projectId |-> projectId, state |-> state,
   files |-> [written |-> FALSE], loaded |-> [result |-> NoResult]]

WriteEnvState ==
  /\ store.pc = "ready"
  /\ store' = [store EXCEPT
                 !.pc = "written",
                 !.files = writeEnvState(store.state, DerivedKey(store.projectId))]
  /\ UNCHANGED <<provisioning, loader, mig, plug, before, mw, dbg, ngrok, envState>>

LoadEnvInfo ==
  /\ store.pc = "written"
  /\ store' = [store EXCEPT
                 !.pc = "loaded",
                 !.loaded = loadEnvInfo(store.files, DerivedKey(store.projectId))]
  /\ UNCHANGED <<provisioning, loader, mig, plug, before, mw, dbg, ngrok, envState>>

InitStore ==
  /\ project = SpfxProject
  /\ isSwitchAccountEnabled = TRUE
  /\ config = [subscriptionId |-> "", resourceGroupName |-> "", resourceNameSuffix |-> ""]
  /\ solution = EmptySolution
  /\ slices = [p \in AllPlugins |-> EmptySlice]
  /\ runs = 0
  /\ pc = "idle"
  /\ run = NewRun
  /\ prov = Idle
  /\ conf = Idle
  /\ result = NoResult
  /\ loader = NoLoad({"dev"})
  /\ mig = NoMigration
  /\ \E projectId \in ProjectIds, secret \in Values, plain \in Values :
       store = NewStore(projectId,
                        [aad |-> [clientId |-> plain, clientSecret |-> secret]])
  /\ plug = NoPlugin
  /\ before = NotInUse
  /\ mw = NotInUse
  /\ dbg = NotInUse
  /\ ngrok = NotInUse
  /\ envState = NotInUse

NextStore ==
  \/ WriteEnvState
  \/ LoadEnvInfo

SpecStore == InitStore /\ [][NextStore]_vars

\* ----------------------------- a plugin and its slice of envInfo.state (part_003)
\* ApimPluginV3.name is V1PluginNames.apim; its methods use ComponentNames.APIM
ApimPluginName == "fx-resource-apim"
\* the entry of envInfo.state the methods of ApimPluginV3 read and write
\* (part_003 194-195, 232)
ApimStateKey == "apim"

\* the entries of envInfo.state the calls can touch, and what an entry holds:
\* nothing (undefined), an empty object, the publisher's values, or the
\* outputs of an earlier provision
SliceNames == {ApimPluginName, ApimStateKey, AAD}
EmptyEntry == [present |-> TRUE, keys |-> {}]
SliceEntries ==
  {[present |-> FALSE, keys |-> {}], EmptyEntry,
   [present |-> TRUE, keys |-> {"publisherEmail"}],
   [present |-> TRUE, keys |-> {"serviceResourceId"}]}

\* provision.ts 293-295 and 361-363: envInfo.state[plugin.name] is created
\* when it is not there
PrepareSlice(state, name) ==
  IF state[name].present THEN state ELSE [state EXCEPT ![name] = EmptyEntry]

NewPlugin(state) ==
  [pc |-> "thunk", name |-> ApimPluginName, state |-> state, prepared |-> "",
   used |-> {}, result |-> NoResult]

\* provision.ts 287-304: the thunk prepares the slice and calls provisionResource
ProvisionThunk ==
  /\ plug.pc = "thunk"
  /\ plug' = [plug EXCEPT !.pc = "provisionResource",
                          !.state = PrepareSlice(plug.state, plug.name),
                          !.prepared = plug.name]
  /\ UNCHANGED <<provisioning, loader, mig, store, before, mw, dbg, ngrok, envState>>

\* part_003 183-223: provisionResource takes its state entry, creates it when
\* it is not there, and hands it to the managers; what they throw becomes an
\* error Result in CommonErrorHandlerMW
ApimProvisionResource ==
  /\ plug.pc = "provisionResource"
  /\ \E managersOk \in BOOLEAN :
       plug' = [plug EXCEPT
                  !.pc = IF managersOk THEN "configureThunk" ELSE "done",
                  !.state = [plug.state EXCEPT
                               ![ApimStateKey] =
                                 IF @.present
                                   THEN [@ EXCEPT !.keys =
                                           IF managersOk
                                             THEN @ \cup {"serviceResourceId"} ELSE @]
                                   ELSE [present |-> TRUE,
                                         keys |-> IF managersOk
                                                    THEN {"serviceResourceId"} ELSE {}]],
                  !.used = @ \cup {ApimStateKey},
                  !.result = IF managersOk THEN Ok ELSE CollaboratorError("apimManager")]
  /\ UNCHANGED <<provisioning, loader, mig, store, before, mw, dbg, ngrok, envState>>

\* provision.ts 359-374: the slice is prepared again for configureResource
ConfigureThunk ==
  /\ plug.pc = "configureThunk"
  /\ plug' = [plug EXCEPT !.pc = "configureResource",
                          !.state = PrepareSlice(plug.state, plug.name),
                          !.prepared = plug.name,
                          !.result = NoResult]
  /\ UNCHANGED <<provisioning, loader, mig, store, before, mw, dbg, ngrok, envState>>

\* part_003 225-264: configureResource takes its state entry, and deletes the
\* publisher's values from it when the managers are done
ApimConfigureResource ==
  /\ plug.pc = "configureResource"
  /\ \E managersOk \in BOOLEAN :
       plug' = [plug EXCEPT
                  !.pc = "done",
                  !.state = IF managersOk
                              THEN [plug.state EXCEPT
                                      ![ApimStateKey].keys =
                                        @ \ {"publisherEmail", "publisherName"}]
                              ELSE plug.state,
                  !.used = @ \cup {ApimStateKey},
                  !.result = IF managersOk THEN Ok ELSE CollaboratorError("aadManager")]
  /\ UNCHANGED <<provisioning, loader, mig, store, before, mw, dbg, ngrok, envState>>

InitPlugin ==
  /\ project = SpfxProject
  /\ isSwitchAccountEnabled = TRUE
  /\ config = [subscriptionId |-> "", resourceGroupName |-> "", resourceNameSuffix |-> ""]
  /\ solution = EmptySolution
  /\ slices = [p \in AllPlugins |-> EmptySlice]
  /\ runs = 0
  /\ pc = "idle"
  /\ run = NewRun
  /\ prov = Idle
  /\ conf = Idle
  /\ result = NoResult
  /\ loader = NoLoad({"dev"})
  /\ mig = NoMigration
  /\ store = NoStore
  /\ \E state \in [SliceNames -> SliceEntries] : plug = NewPlugin(state)
  /\ before = NotInUse
  /\ mw = NotInUse
  /\ dbg = NotInUse
  /\ ngrok = NotInUse
  /\ envState = NotInUse

NextPlugin ==
  \/ ProvisionThunk
  \/ ApimProvisionResource
  \/ ConfigureThunk
  \/ ApimConfigureResource

SpecPlugin == InitPlugin /\ [][NextPlugin]_vars

\* ------------------------------------------------------------ properties
NoPluginCalled == \A p \in AllPlugins : prov[p] = "idle" /\ conf[p] = "idle"
NoResourceGroupCreated == run.rgCreate = "none"
NoTemplateDeployed == run.arm = "none"
ProvisionStarted == \E p \in AllPlugins : prov[p] # "idle"
ConfigureStarted == \E p \in AllPlugins : conf[p] # "idle"
FailedPlugins == {p \in Range(provisionThunks) : prov[p] = "err"}

\* C1: when a run returns, provisionSucceeded is true only if the configure
\* phase of that run succeeded, and a run that returns an error leaves the
\* flag false or absent whatever it was before the run.
C1_FlagOnlyAfterConfigure ==
  (pc = "done" /\ result # SystemError("Solution", "InternelError")) =>
    /\ solution.provisionSucceeded = "true" => run.configureKind = "success"
    /\ IsErr(result) => solution.provisionSucceeded # "true"

\* C2: within a run the phases do not overlap and come in the order provision,
\* template deployment, configure: deployment starts only when every
\* provisionResource call has returned successfully, and configureResource is
\* called only when deployment (if the run deploys) has completed and its
\* outputs are merged into the state.
C2_PhasesInOrder ==
  /\ run.arm # "none" => \A p \in Range(provisionThunks) : prov[p] = "ok"
  /\ ConfigureStarted =>
       /\ \A p \in Range(provisionThunks) : prov[p] = "ok"
       /\ run.arm \in {"none", "merged"}
       /\ NeedDeployArmTemplates =>
            /\ run.arm = "merged"
            /\ \A p \in Range(project.plugins) : slices[p].output
  /\ run.arm = "running" => ~ConfigureStarted

C2_Witness ==
  /\ run.arm = "merged"
  /\ \E p \in AllPlugins : conf[p] = "running"

\* C3: when a provisionResource call fails, the other calls of the phase still
\* return (none is cancelled), and the run makes no template deployment, no
\* AAD context step and no configureResource call.
C3_FailedProvisionStopsRun ==
  FailedPlugins # {} =>
    /\ NoTemplateDeployed
    /\ run.aadContext = "none"
    /\ ~ConfigureStarted
    /\ pc = "done" => /\ \A p \in Range(provisionThunks) : prov[p] \in {"ok", "err"}
                      /\ IsErr(result)

C3_Witness ==
  /\ pc = "done"
  /\ run.provisionKind = "partialSuccess"
  /\ \E p \in AllPlugins : prov[p] = "ok"

\* C4: with three plugins of which only B fails in provisionResource, the run
\* returns B's error and the state the other two wrote is in envInfo.state
\* when the run returns.
C4_OnlyOneFails ==
  (pc = "done" /\ Len(provisionThunks) = 3 /\ Cardinality(FailedPlugins) = 1) =>
    \A b \in FailedPlugins :
      /\ result = PluginError(b, "provisionResource")
      /\ \A a \in Range(provisionThunks) \ {b} :
           prov[a] = "ok" /\ slices[a].present /\ slices[a].provisioned

C4_Witness ==
  /\ pc = "done"
  /\ Len(provisionThunks) = 3
  /\ FailedPlugins = {project.plugins[2]}

\* C5: when the reconciler fails at a stage (tenant resolution, permission
\* request check, subscription resolution, Azure login, resource group
\* resolution), the run returns that error and has made no consent prompt, no
\* resource group creation, no plugin call and no template deployment.
C5_ReconcilerFailureAborts ==
  IsErr(run.reconcileError) =>
    /\ pc = "done"
    /\ result = run.reconcileError
    /\ run.prompts = 0
    /\ NoResourceGroupCreated
    /\ NoPluginCalled
    /\ NoTemplateDeployed

C5_Witness ==
  /\ pc = "done"
  /\ run.reconcileError = UserError("core", "ResourceGroupNotFound")

\* C6: when the operator declines at the consent gate, the run returns the
\* UserError CancelProvision and creates no resource group, calls no plugin and
\* deploys no template.
C6_DeclineCancels ==
  run.declined =>
    /\ pc = "done"
    /\ result.kind = "UserError" /\ result.name = "CancelProvision"
    /\ NoResourceGroupCreated
    /\ NoPluginCalled
    /\ NoTemplateDeployed

C6_Witness == run.declined /\ run.prompts > 0

\* C7: when a new resource group is needed, its creation has succeeded before
\* the first provisionResource call starts; when the creation fails the run
\* returns the error and calls no plugin.
C7_ResourceGroupBeforePlugins ==
  /\ (AzureResourcesToProvision(project) /\ solution.needCreateResourceGroup = "true" /\ ProvisionStarted)
       => run.rgCreate = "ok"
  /\ run.rgCreate = "err" =>
       pc = "done" /\ result = CollaboratorError("createNewResourceGroup")
       /\ NoPluginCalled

C7_Witness ==
  /\ solution.needCreateResourceGroup = "true"
  /\ run.rgCreate = "ok"
  /\ \E p \in AllPlugins : prov[p] = "running"

\* C8: k Learn more answers followed by Provision make the gate prompt k+1
\* times, open the documentation k times and return success; a Learn more
\* answer leaves the gate asking.
C8_LearnMoreLoops ==
  /\ run.confirm = provisionText =>
       run.gate = "ok" /\ run.prompts = run.urlOpens + 1
  /\ run.confirm = learnMoreText =>
       run.gate = "asking" /\ pc = "showMessage" /\ run.prompts = run.urlOpens

C8_Witness ==
  /\ run.confirm = provisionText
  /\ run.urlOpens = MaxLearnMore
  /\ run.gate = "ok"

\* C9: CancelProvision is returned only when the operator declined; when
\* showMessage itself returns an error the gate reports another error.
C9_CancelOnlyOnDecline ==
  /\ (pc = "done" /\ result.name = "CancelProvision") => run.declined
  /\ (pc = "done" /\ run.showMessageFailed) => result.name # "CancelProvision"

\* C10: a tenant switch is detected exactly when the tenant id stored in
\* state.solution.teamsAppTenantId and the signed-in tenant id both exist
\* and differ.
C10_TenantSwitchDetected ==
  [][(pc = "checkM365Tenant" /\ run'.tenantResolved) =>
       (run'.isSwitchingM365Tenant <=>
          /\ solution.teamsAppTenantId # ""
          /\ run'.tenantIdInToken # ""
          /\ solution.teamsAppTenantId # run'.tenantIdInToken)]_vars

C10_Witness ==
  /\ run.isSwitchingM365Tenant
  /\ run.tenantIdInConfig \in Tenants
  /\ run.tenantIdInToken \in Tenants

\* C11: when a tenant switch is detected and account switching is disabled,
\* the run has returned the UserError TeamsAppTenantIdNotRight whose message
\* is filled in with the environment name, and it has resolved no
\* subscription and no resource group, shown no consent prompt and called no
\* plugin (the run is never at a later position with the switch detected).
C11_DisabledSwitchFailsFast ==
  (run.isSwitchingM365Tenant /\ ~isSwitchAccountEnabled) =>
    /\ pc = "done"
    /\ result.kind = "UserError" /\ result.from = "Solution"
    /\ result.name = "TeamsAppTenantIdNotRight"
    /\ result.message.args = <<envName>>
    /\ ~run.hasSwitchedM365Tenant /\ ~run.hasSwitchedSubscription
    /\ run.reconcileError = NoResult
    /\ run.gate = "none" /\ run.prompts = 0
    /\ NoResourceGroupCreated /\ NoPluginCalled /\ NoTemplateDeployed

C11_Witness ==
  /\ run.isSwitchingM365Tenant /\ ~isSwitchAccountEnabled
  /\ run.tenantIdInConfig = "T1" /\ run.tenantIdInToken = "T2"
  /\ pc = "done"

\* C12: when the resolved subscription differs from the stored one, the purge
\* removes the enumerated component entries and nothing else: every other
\* entry and every key under solution (other than the subscription itself,
\* which the resolution writes) has the value it had before.
C12_PurgeOnlyEnumerated ==
  [][(pc = "compareSubscription" /\ run'.hasSwitchedSubscription) =>
       /\ \A p \in keysToClear : ~slices'[p].present
       /\ \A p \in AllPlugins \ keysToClear : slices'[p] = slices[p]
       /\ solution' = [solution EXCEPT
                         !.subscriptionId = solution'.subscriptionId,
                         !.subscriptionName = solution'.subscriptionName,
                         !.tenantId = solution'.tenantId]]_vars

\* C13: when the subscription is resolved, hasSwitchedSubscription is reported
\* true exactly when a subscription id was stored in state and the resolved id
\* differs from it; a run signed in under the stored tenant reports no tenant
\* switch (stored T1 / S1, signed in under T1 with S2 resolved: subscription
\* switched, tenant not).
C13_SubscriptionSwitchReported ==
  [][(pc \in {"checkSubscription", "compareSubscription"} /\ pc' = "azureLogin") =>
       /\ run'.hasSwitchedSubscription <=>
            (solution.subscriptionId # "" /\
             solution'.subscriptionId # solution.subscriptionId)
       /\ run.tenantIdInConfig = run.tenantIdInToken =>
            ~run'.hasSwitchedM365Tenant]_vars

C13_Witness ==
  /\ run.hasSwitchedSubscription /\ ~run.hasSwitchedM365Tenant
  /\ run.tenantIdInConfig = "T1" /\ run.tenantIdInToken = "T1"
  /\ solution.teamsAppTenantId = "T1" /\ solution.subscriptionId = "S2"

\* C14: when the config file gives no subscription and state holds a
\* subscription id that the signed-in account can still see, the run targets
\* the stored subscription, not the one selected in the account.
C14_StoredSubscriptionBeforeAccount ==
  [][(/\ pc = "compareSubscription" /\ pc' = "azureLogin"
      /\ config.subscriptionId = ""
      /\ solution.subscriptionId # ""
      /\ solution.subscriptionId \in run.subscriptions) =>
       solution'.subscriptionId = solution.subscriptionId]_vars

\* the name a source gives: the caller's, the config file's, the stored one
NameOfSource(source) ==
  IF source = "inputs" THEN {run.targetResourceGroupName}
  ELSE IF source = "config" THEN {config.resourceGroupName}
  ELSE IF source = "state" THEN {solution.resourceGroupName}
  ELSE {"default-rg", "existing-rg"}

C16_MissingConfigValueFails ==
  [][/\ (/\ pc = "compareSubscription"
          /\ config.subscriptionId # ""
          /\ config.subscriptionId \notin run.subscriptions) =>
            /\ pc' = "done"
            /\ result' = UserError("core", "SubscriptionNotFound")
            /\ solution' = solution /\ slices' = slices
     /\ (/\ pc = "compareSubscription" /\ pc' = "azureLogin"
          /\ config.subscriptionId # "") =>
            solution'.subscriptionId = config.subscriptionId
     /\ (/\ pc = "awaitResourceGroup"
          /\ run.rgSource = "config"
          /\ run'.rgAnswer = "notFound") =>
            /\ pc' = "done"
            /\ result' = UserError("core", "ResourceGroupNotFound")
            /\ solution' = solution /\ slices' = slices]_vars

C16_Witness ==
  /\ pc = "done"
  /\ config.resourceGroupName = "cfg-rg"
  /\ run.rgSource = "config" /\ run.rgAnswer = "notFound"
  /\ result.name = "ResourceGroupNotFound"

\* C17: the existence check of the stored resource group keeps its outcomes
\* apart: exists gives "no group to create", does not exist gives "create the
\* group", a 403 of the resource manager gives
\* UnauthorizedToCheckResourceGroupError, any other thrown failure gives
\* FailedToCheckResourceGroupExistenceError; an error ends the run with that
\* error and is not taken as "does not exist" (needCreateResourceGroup and
\* the rest of the state stay as they were).
C17_ExistenceOutcomesApart ==
  [][(pc = "awaitResourceGroup" /\ run.rgSource = "state") =>
       LET upstream == run'.rgAnswer
       IN /\ upstream = "exists" =>
               pc' = "consent" /\ solution'.needCreateResourceGroup = "false"
          /\ upstream = "missing" =>
               pc' = "consent" /\ solution'.needCreateResourceGroup = "true"
          /\ upstream = "rest403" =>
               /\ pc' = "done" /\ solution' = solution
               /\ result' = UserError("Solution", "UnauthorizedToCheckResourceGroupError")
          /\ upstream \in {"restOther", "error", "nonError"} =>
               /\ pc' = "done" /\ solution' = solution
               /\ result' = UserError("Solution",
                                      "FailedToCheckResourceGroupExistenceError")]_vars

C17_Witness ==
  /\ pc = "done"
  /\ run.rgSource = "state" /\ run.rgAnswer = "rest403"
  /\ result.name = "UnauthorizedToCheckResourceGroupError"
  /\ solution.needCreateResourceGroup = "false"

\* C18: a resource name suffix that is stored for the environment is kept by
\* every later step of every later run.
C18_SuffixKept ==
  [][solution.resourceNameSuffix # "" =>
       solution'.resourceNameSuffix = solution.resourceNameSuffix]_vars

\* C19: no step of a provisioning run, of a run that succeeds or of one that
\* fails, changes a value of envInfo.config.
C19_ConfigNotModified ==
  [][config' = config]_vars

C19_Witness ==
  /\ pc = "done" /\ result = Ok
  /\ config.subscriptionId = "" /\ solution.subscriptionId = "S2"
  /\ config.resourceGroupName = "" /\ solution.resourceGroupName = "default-rg"
  /\ config.resourceNameSuffix = "" /\ solution.resourceNameSuffix # ""

\* C20: when the requested environment does not exist, a request for the
\* local environment has it created (createLocalEnv is called once) and, once
\* it is there, the call returns it; a request for any other name returns
\* ProjectEnvNotExistError naming it, and no environment is created. A call
\* never returns an environment that does not exist.
C20_MissingEnvironment ==
  (loader.pc = "returned" /\ ~loader.existedBefore) =>
    /\ loader.requested # LocalEnvName =>
         /\ loader.result = ProjectEnvNotExistError(loader.requested)
            \/ loader.result = CollaboratorError("checkEnvExist")
         /\ loader.createLocalEnvCalls = 0
         /\ loader.requested \notin loader.envs
    /\ (loader.requested = LocalEnvName /\ loader.result # CollaboratorError("checkEnvExist")) =>
         /\ loader.createLocalEnvCalls = 1
         /\ LocalEnvName \in loader.envs =>
              loader.result = Ok /\ loader.value = LocalEnvName
         /\ LocalEnvName \notin loader.envs =>
              loader.result = ProjectEnvNotExistError(LocalEnvName)
    /\ loader.result = Ok => loader.value \in loader.envs

C20_Witness ==
  /\ loader.pc = "returned" /\ ~loader.existedBefore
  /\ loader.requested = LocalEnvName
  /\ loader.createLocalEnvCalls = 1
  /\ loader.result = Ok /\ loader.value = LocalEnvName
  /\ LocalEnvName \in loader.envs

\* the plugin names of a settings object the conversions have no branch for
Unrecognized(settings) ==
  settings.solutionSettings.activeResourcePlugins
    \ {AAD, FE, SPFX, "fx-resource-bot", "fx-resource-identity", "fx-resource-key-vault",
       "fx-resource-azure-sql", "fx-resource-apim", "fx-resource-function"}

\* every component of the graph that names a hosting target has it in the graph
HostingPresent(settings) ==
  \A i \in 1..Len(settings.components) :
    settings.components[i].hosting # "" =>
      IndexOfComponent(settings.components, settings.components[i].hosting) # 0

\* C21: the upgrade of an upgraded settings object is that object: whenever
\* convertProjectSettingsV2ToV3 is applied to what it returned, it returns
\* the same settings.
C21_UpgradeIdempotent ==
  mig.pc = "upgradedAgain" => mig.again = mig.upgraded

C21_Witness ==
  /\ mig.pc = "upgradedAgain"
  /\ mig.original.solutionSettings.activeResourcePlugins = {FE, "fx-resource-bot"}
  /\ Len(mig.upgraded.value.components) = 5
  /\ mig.again = mig.upgraded

\* C22: upgrading the downgrade of an upgraded settings object gives the
\* upgraded settings object again.
C22_RoundTripStable ==
  mig.pc = "roundTrip" => mig.roundTrip = mig.upgraded

\* C23: after convertProjectSettingsV2ToV3 returned or threw, the settings
\* object it was called with is what it was before the call.
C23_UpgradePure ==
  mig.pc # "start" => mig.settings = mig.original

\* C24: convertProjectSettingsV2ToV3 returns for every legacy settings object,
\* it never throws.
C24_UpgradeTotal ==
  mig.pc # "start" => ~mig.upgraded.threw

\* C25: the plugin names of S the conversions do not recognize are in
\* activeResourcePlugins of upgrade(S) and of downgrade(upgrade(S)).
C25_UnrecognizedCarried ==
  /\ (mig.pc # "start" /\ ~mig.upgraded.threw) =>
       Unrecognized(mig.original)
         \subseteq mig.upgraded.value.solutionSettings.activeResourcePlugins
  /\ mig.pc \in {"downgraded", "roundTrip"} =>
       Unrecognized(mig.original)
         \subseteq mig.downgraded.value.solutionSettings.activeResourcePlugins

\* C26: in the component graph of every upgraded settings object each
\* component with a hosting target has a component of that name beside it.
C26_HostingTargetPresent ==
  (mig.pc # "start" /\ ~mig.upgraded.threw /\ mig.upgraded.value.hasComponents) =>
    HostingPresent(mig.upgraded.value)

C26_Witness ==
  /\ mig.pc = "upgraded" /\ ~mig.upgraded.threw
  /\ mig.original.solutionSettings.activeResourcePlugins
       = {"fx-resource-bot", "fx-resource-function"}
  /\ mig.original.pluginSettings.hostType = "azure-functions"
  /\ getComponent(mig.upgraded.value, "teams-bot").hosting = "azure-function"
  /\ getComponent(mig.upgraded.value, "teams-api").hosting = "azure-function"
  /\ HostingPresent(mig.upgraded.value)

C29_OwnSliceOnly ==
  plug.pc # "none" => plug.used \subseteq {plug.name} \cap {plug.prepared}

\* C30: the sentences of a consent message that is shown are, in this order:
\* the switch notice, there exactly when the tenant or the subscription
\* switched and of the variant of what switched; the Azure account and the
\* subscription, there exactly when the project has Azure resources; the
\* Microsoft 365 account.
C30_ConsentMessageOrder ==
  (pc = "showMessage" \/ run.prompts > 0) =>
    LET tenant == run.hasSwitchedM365Tenant
        subscription == run.hasSwitchedSubscription
        notice == IF tenant /\ subscription
                    THEN <<"switchedM365AccountAndAzureSubscriptionNotice">>
                  ELSE IF tenant THEN <<"switchedM365AccountNotice">>
                  ELSE IF subscription THEN <<"switchedAzureSubscriptionNotice">>
                  ELSE <<>>
        azure == IF AzureResourcesToProvision(project)
                   THEN <<"core.provision.azureAccount", "core.provision.azureSubscription">>
                   ELSE <<>>
    IN [i \in 1..Len(run.accountsInfo) |-> run.accountsInfo[i].key]
         = notice \o azure \o <<"core.provision.m365Account">>

C30_Witness ==
  /\ pc = "showMessage"
  /\ ~run.hasSwitchedM365Tenant /\ run.hasSwitchedSubscription
  /\ AzureResourcesToProvision(project)
  /\ Len(run.accountsInfo) = 4
  /\ run.accountsInfo[1].key = "switchedAzureSubscriptionNotice"
  /\ solution.subscriptionName # ""
  /\ run.accountsInfo[3].args = <<solution.subscriptionName>>

\* C28: a run of provisionResource never ends in an exception: whatever a
\* collaborator does, the caller gets a Result.
C28_NoExceptionEscapes ==
  pc # "rejected" /\ result.kind # "rejected"

\* the run has called deployArmTemplates
DeployArmTemplatesCalled == run.arm # "none"
\* the provision phase of the run has fully succeeded and the run is past the
\* decision of lines 325-329
ProvisionPhaseSucceeded ==
  run.provisionKind = "success" /\ pc \notin {"awaitProvision", "deployArmTemplates"}

\* C32: when handleConfigFilesWhenSwitchAccount fails in a run (the backup of
\* the files or the update of the Azure parameters), the run returns that
\* error and calls provisionResource of no plugin.
C32_ConfigFilesFailureAborts ==
  run.configFiles \in {"backupFiles", "updateAzureParameters"} =>
    /\ pc = "done"
    /\ result = CollaboratorError(run.configFiles)
    /\ NoPluginCalled

\* the update of the Azure parameters failed after a subscription switch
C32_Witness ==
  /\ run.configFiles = "updateAzureParameters" /\ run.hasSwitchedSubscription
  /\ result = CollaboratorError("updateAzureParameters")

\* C33: when the operator declines at the consent gate, envInfo.state is as it
\* was before the run started: tenant ids, subscription id and name, resource
\* group name, resourceNameSuffix and every component entry.
C33_DeclineLeavesState ==
  (pc = "done" /\ run.declined) =>
    (solution = before.solution /\ slices = before.slices)

\* C34: in a run in which only the subscription has switched and whose state
\* had a bot resourceId when the run started, the consent prompt carries the
\* notice that a new Azure bot will be created.
C34_NewBotNoticeShown ==
  ( /\ pc = "showMessage" \/ run.prompts > 0
    /\ run.hasSwitchedSubscription /\ ~run.hasSwitchedM365Tenant
    /\ before.slices[BOT].resourceId # "" )
  => run.newBotNotice = "createNewAzureBotNotice"

\* C31 as stated: deployArmTemplates is called in a run if and only if the
\* project is an Azure project with an Azure resource and the provision phase
\* of the run fully succeeded; a successful run of a project without Azure
\* resource never calls it.
C31_DeployIffAzureAndProvisioned ==
  /\ DeployArmTemplatesCalled <=>
       (AzureResourcesToProvision(project) /\ ProvisionPhaseSucceeded)
  /\ (~project.hasAzureResource /\ pc = "done" /\ result = Ok) => ~DeployArmTemplatesCalled

\* C31 amended: deployArmTemplates is called in a run if and only if the
\* project is an Azure project with an Azure resource, the provision phase of
\* the run fully succeeded and inputs.isForUT is not set; a successful run of
\* a project without Azure resource never calls it.
C31_DeployIffAzureProvisionedNotForUT ==
  /\ DeployArmTemplatesCalled <=>
       (AzureResourcesToProvision(project) /\ ProvisionPhaseSucceeded /\ ~run.isForUT)
  /\ (~project.hasAzureResource /\ pc = "done" /\ result = Ok) => ~DeployArmTemplatesCalled

\* an Azure project whose templates were deployed after its provision phase,
\* the run having ended well
C31_Witness ==
  /\ project = AzureAadProject /\ run.arm = "merged" /\ run.provisionKind = "success"
  /\ pc = "done" /\ result = Ok

Next ==
  \/ StartRun
  \/ CollaboratorThrows
  \/ GetAccessToken
  \/ CheckM365Tenant
  \/ EnsurePermissionRequest
  \/ CheckSubscription
  \/ ListSubscriptions
  \/ CompareSubscription
  \/ AzureLogin
  \/ ResolveResourceGroup
  \/ ResourceGroupReturns
  \/ ConsentEnter
  \/ ShowMessage
  \/ CreateResourceGroup
  \/ HandleConfigFiles
  \/ ProvisionLaunch
  \/ \E p \in AllPlugins : PluginProvisionReturns(p)
  \/ ProvisionFinish
  \/ DeployArmTemplatesStart
  \/ DeployArmTemplatesReturns
  \/ AadSetApplicationInContext
  \/ ConfigureLaunch
  \/ \E p \in AllPlugins : PluginConfigureReturns(p)
  \/ ConfigureFinish

Spec == Init /\ [][Next]_vars

\* --------------------------------------- a run over a provisioned environment
\* a project with a bot, AAD and the app manifest
BotProject ==
  [name |-> "azure-bot", isAzure |-> TRUE, hasAzureResource |-> TRUE, hasAAD |-> TRUE,
   plugins |-> <<BOT, AAD, APPST>>]

\* envInfo.state.solution after a run of the bot project that ended well, under
\* tenant T1 and subscription S1, with a resource group it created
ProvisionedSolution ==
  [ present |-> TRUE, teamsAppTenantId |-> "T1", subscriptionId |-> "S1",
    subscriptionName |-> SubscriptionName("S1"), tenantId |-> SubscriptionTenant("S1"),
    resourceGroupName |-> "default-rg", location |-> "eastus",
    resourceNameSuffix |-> uuidv4(1),
    needCreateResourceGroup |-> "true", provisionSucceeded |-> "true",
    armTemplateOutput |-> FALSE ]

\* the entries of the plugins after that run; deployed: the templates were
\* deployed in it (inputs.isForUT was not set)
ProvisionedSlices(deployed) ==
  [p \in AllPlugins |->
     IF p \in Range(BotProject.plugins)
       THEN [ present |-> TRUE, tenantId |-> IF p = APPST THEN "T1" ELSE "",
              provisioned |-> TRUE, configured |-> TRUE, output |-> deployed,
              resourceId |-> IF p = BOT /\ deployed THEN "bot-service" ELSE "" ]
       ELSE EmptySlice]

\* the environment was provisioned by one run; the behaviour is what follows
InitSwitch ==
  /\ project = BotProject
  /\ isSwitchAccountEnabled \in BOOLEAN
  /\ config \in Configs
  /\ solution = ProvisionedSolution
  /\ \E deployed \in BOOLEAN : slices = ProvisionedSlices(deployed)
  /\ runs = 1
  /\ pc = "idle"
  /\ run = NewRun
  /\ prov = Idle
  /\ conf = Idle
  /\ result = NoResult
  /\ loader = NoLoad({"dev"})
  /\ mig = NoMigration
  /\ store = NoStore
  /\ plug = NoPlugin
  /\ before = [solution |-> solution, slices |-> slices]
  /\ mw = NotInUse
  /\ dbg = NotInUse
  /\ ngrok = NotInUse
  /\ envState = NotInUse

SpecSwitch == InitSwitch /\ [][Next]_vars

\* ------------------------------------------------------------ EnvInfoLoaderMW
\* the provisioning variables at rest and the earlier parts not in use
NoProvisioning ==
  /\ project = SpfxProject
  /\ isSwitchAccountEnabled = TRUE
  /\ config = [subscriptionId |-> "", resourceGroupName |-> "", resourceNameSuffix |-> ""]
  /\ solution = EmptySolution
  /\ slices = [p \in AllPlugins |-> EmptySlice]
  /\ runs = 0
  /\ pc = "idle"
  /\ run = NewRun
  /\ prov = Idle
  /\ conf = Idle
  /\ result = NoResult
  /\ loader = NoLoad({"dev"})
  /\ mig = NoMigration
  /\ store = NoStore
  /\ plug = NoPlugin
  /\ before = NotInUse

\* number of invocations of one middleware instance in one behaviour
MaxInvocations == 3

\* ctx.method of an invocation
Methods == {"localDebug", "localDebugV2", "provisionResourcesV2", "deployArtifactsV2"}

\* getTargetEnvName lines 122-146: how the target environment is found
getTargetEnvName(skip, inputs) ==
  IF ~skip /\ ~inputs.ignoreEnvInfo
    THEN IF inputs.env # "" THEN "useUserSetEnv" ELSE "askTargetEnvironment"
    ELSE "getDefaultEnvName"

\* EnvInfoLoaderMW(skip) line 58-59: the middleware is created; created is
\* the argument, skip the parameter variable its closure keeps
NewMiddleware(skip) ==
  [ pc |-> "idle", created |-> skip, skip |-> skip, invocations |-> 0, method |-> "",
    inputs |-> [ignoreEnvInfo |-> FALSE, env |-> ""],
    skipUsed |-> "none", targetEnv |-> "none", skipLoad |-> "none",
    nextCalled |-> FALSE, result |-> NoResult ]

\* lines 60-82: the middleware is invoked; up to the call of getTargetEnvName
EnvInfoLoaderMW ==
  /\ mw.pc = "idle"
  /\ mw.invocations < MaxInvocations
  /\ \E method \in Methods, shouldIgnored \in BOOLEAN, projectSettingsDefined \in BOOLEAN,
        projectPathDefined \in BOOLEAN, ignoreEnvInfo \in BOOLEAN, inputsEnv \in {"", "dev"} :
       LET skip == IF method \in {"localDebug", "localDebugV2"} THEN FALSE ELSE mw.skip
           inputs == [ignoreEnvInfo |-> ignoreEnvInfo, env |-> inputsEnv]
           entered == [mw EXCEPT !.skip = skip, !.invocations = @ + 1,
                                 !.method = method, !.inputs = inputs,
                                 !.skipUsed = "none", !.targetEnv = "none",
                                 !.skipLoad = "none", !.nextCalled = FALSE,
                                 !.result = NoResult]
       IN mw' = IF shouldIgnored THEN [entered EXCEPT !.nextCalled = TRUE]
                ELSE IF ~projectSettingsDefined
                  THEN [entered EXCEPT
                          !.result = SystemError("core", "ProjectSettingsUndefinedError")]
                ELSE IF ~projectPathDefined
                  THEN [entered EXCEPT !.result = UserError("core", "NoProjectOpened")]
                ELSE [entered EXCEPT !.pc = "getTargetEnvName",
                                     !.skipUsed = BoolText(skip),
                                     !.targetEnv = getTargetEnvName(skip, inputs)]
  /\ UNCHANGED <<provisioning, loader, mig, store, plug, before, dbg, ngrok, envState>>

\* lines 82-89: getTargetEnvName returns; loadSolutionContext is called with
\* skip || inputs.ignoreEnvInfo
GetTargetEnvNameReturns ==
  /\ mw.pc = "getTargetEnvName"
  /\ \E ok \in (IF mw.targetEnv = "getDefaultEnvName" THEN {TRUE} ELSE BOOLEAN) :
       mw' = IF ok
               THEN [mw EXCEPT !.pc = "loadSolutionContext", !.inputs.env = "dev",
                               !.skipLoad = BoolText(mw.skip \/ mw.inputs.ignoreEnvInfo)]
               ELSE [mw EXCEPT !.pc = "idle", !.result = CollaboratorError(mw.targetEnv)]
  /\ UNCHANGED <<provisioning, loader, mig, store, plug, before, dbg, ngrok, envState>>

\* lines 89-110: loadSolutionContext returns; next() is called
LoadSolutionContextReturns ==
  /\ mw.pc = "loadSolutionContext"
  /\ \E ok \in BOOLEAN :
       mw' = IF ok THEN [mw EXCEPT !.pc = "idle", !.nextCalled = TRUE, !.result = Ok]
             ELSE [mw EXCEPT !.pc = "idle",
                             !.result = CollaboratorError("loadSolutionContext")]
  /\ UNCHANGED <<provisioning, loader, mig, store, plug, before, dbg, ngrok, envState>>

InitMiddleware ==
  /\ NoProvisioning
  /\ \E skip \in BOOLEAN : mw = NewMiddleware(skip)
  /\ dbg = NotInUse
  /\ ngrok = NotInUse
  /\ envState = NotInUse

NextMiddleware ==
  \/ EnvInfoLoaderMW
  \/ GetTargetEnvNameReturns
  \/ LoadSolutionContextReturns

SpecMiddleware == InitMiddleware /\ [][NextMiddleware]_vars

\* C35: the skip setting given when the middleware was created is the one
\* every invocation of a method other than localDebug and localDebugV2 uses,
\* whatever invocations came before it.
C35_SkipSettingKept ==
  (mw.method \notin {"localDebug", "localDebugV2"} /\ mw.skipUsed # "none")
    => mw.skipUsed = BoolText(mw.created)

\* ------------------------------------------------- debug handlers (local env)
\* number of debug tasks run in one behaviour
MaxDebugRuns == 2

\* the parts of state.local.json the handlers read and write; "" is an
\* absent value
EmptyLocalState ==
  [ bot |-> [objectId |-> "", botId |-> "", botPassword |-> ""],
    aad |-> [objectId |-> "", clientId |-> "", clientSecret |-> "",
             oauth2PermissionScopeId |-> ""] ]

\* credentials of the n-th app registered in AAD
RegisteredApps == <<"app-1", "app-2", "app-3", "app-4">>

\* String.prototype.trim on a sequence of characters
RECURSIVE trim(_)
trim(s) ==
  IF s = <<>> THEN s
  ELSE IF Head(s) = " " THEN trim(Tail(s))
  ELSE IF s[Len(s)] = " " THEN trim(SubSeq(s, 1, Len(s) - 1))
  ELSE s

\* BotDebugArgs and SSODebugArgs of a task
NoArgs ==
  [ botId |-> "", botPassword |-> "", botMessagingEndpoint |-> <<>>,
    objectId |-> "", clientId |-> "", clientSecret |-> "", accessAsUserScopeId |-> "" ]

BotDebugArgs ==
  { [NoArgs EXCEPT !.botId = id, !.botPassword = pw, !.botMessagingEndpoint = ep] :
      id \in {"", "my-bot"}, pw \in {"", "my-bot-secret"},
      ep \in {<<>>, <<" ">>, <<"u">>, <<" ", "u", " ">>} }

SSODebugArgs ==
  { [NoArgs EXCEPT !.objectId = o, !.clientId = c, !.clientSecret = cs,
                   !.accessAsUserScopeId = sc] :
      o \in {"", "my-object"}, c \in {"", "my-client"}, cs \in {"", "my-secret"},
      sc \in {"", "my-scope"} }

\* no debug task has run yet; file is the local environment state on disk,
\* state the envInfoV3.state of the handler
NewDebug ==
  [ pc |-> "idle", handler |-> "none", args |-> NoArgs, existing |-> FALSE,
    file |-> EmptyLocalState, state |-> EmptyLocalState,
    actions |-> <<>>, index |-> 0, ran |-> <<>>, ret |-> Ok, failedAt |-> 0,
    error |-> NoResult, result |-> NoResult, runs |-> 0,
    botApps |-> 0, ssoApps |-> 0, uuids |-> 0, scopeBefore |-> "" ]

\* BotDebugHandler.getActions, SSODebugHandler.getActions
getActions(handler) ==
  IF handler = "bot"
    THEN << "Bot.validateArgs", "Bot.registerAAD", "registerBot",
            "updateBotMessagingEndpoint", "saveStates", "setEnvs" >>
    ELSE << "SSO.validateArgs", "SSO.registerAAD", "configureAAD",
            "buildAndSaveAADManifest", "saveStates", "setEnvs" >>

\* BotDebugHandler.validateArgs
Bot_validateArgs(d) ==
  LET hasId == d.args.botId # ""
      hasPassword == d.args.botPassword # ""
      existing == hasId /\ hasPassword
  IN IF ~existing /\ (hasId \/ hasPassword)
       THEN [d EXCEPT !.ret = UserError("debugHandler", "InvalidExistingBotArgsError")]
     ELSE IF trim(d.args.botMessagingEndpoint) = <<>>
       THEN [d EXCEPT !.existing = existing,
                      !.ret = UserError("debugHandler", "BotMessagingEndpointMissingError")]
     ELSE [d EXCEPT !.existing = existing, !.ret = Ok,
                    !.args.botMessagingEndpoint = trim(@)]

\* BotDebugHandler.registerAAD; ok: the project settings, the environment
\* and the token load, and the Graph call succeeds
Bot_registerAAD(d, ok) ==
  IF ~ok THEN [d EXCEPT !.ret = CollaboratorError("registerAAD")]
  ELSE IF d.existing
    THEN [d EXCEPT !.ret = Ok,
                   !.state = [d.file EXCEPT !.bot.botId = d.args.botId,
                                            !.bot.botPassword = d.args.botPassword]]
  ELSE IF d.file.bot.botId # "" /\ d.file.bot.botPassword # ""
    THEN [d EXCEPT !.ret = Ok, !.state = d.file]
  ELSE LET app == RegisteredApps[d.botApps + d.ssoApps + 1]
       IN [d EXCEPT !.ret = Ok, !.botApps = @ + 1,
                    !.state = [d.file EXCEPT !.bot.objectId = app,
                                             !.bot.botId = app,
                                             !.bot.botPassword = app]]

\* BotDebugHandler.registerBot
registerBot(d, ok) ==
  [d EXCEPT !.ret = IF ok THEN Ok ELSE CollaboratorError("registerBot")]

\* BotDebugHandler.updateBotMessagingEndpoint; the domain and endpoint
\* entries it sets are not part of the state kept here
updateBotMessagingEndpoint(d, ok) ==
  [d EXCEPT !.ret = IF ok THEN Ok ELSE CollaboratorError("updateBotMessagingEndpoint")]

\* BotDebugHandler.saveStates, SSODebugHandler.saveStates
saveStates(d, ok) ==
  IF ok THEN [d EXCEPT !.ret = Ok, !.file = d.state]
  ELSE [d EXCEPT !.ret = CollaboratorError("writeEnvState")]

\* BotDebugHandler.setEnvs, SSODebugHandler.setEnvs
setEnvs(d, ok) ==
  [d EXCEPT !.ret = IF ok THEN Ok ELSE CollaboratorError("setEnvs")]

\* SSODebugHandler.validateArgs
SSO_validateArgs(d) ==
  LET given == {a \in {d.args.objectId, d.args.clientId, d.args.clientSecret} : a # ""}
      all == d.args.objectId # "" /\ d.args.clientId # "" /\ d.args.clientSecret # ""
  IN IF all THEN [d EXCEPT !.existing = TRUE, !.ret = Ok]
     ELSE IF given # {}
       THEN [d EXCEPT !.ret = UserError("debugHandler", "InvalidSSODebugArgsError")]
     ELSE [d EXCEPT !.ret = Ok]

\* sso.ts 173-174 and 180-181: the scope id registerAAD puts into the state
oauth2PermissionScopeId(d) ==
  IF d.existing
    THEN IF d.args.accessAsUserScopeId # "" THEN d.args.accessAsUserScopeId
         ELSE uuidv4(d.uuids + 1)
    ELSE IF d.file.aad.oauth2PermissionScopeId # "" THEN d.file.aad.oauth2PermissionScopeId
         ELSE uuidv4(d.uuids + 1)

\* SSODebugHandler.registerAAD
SSO_registerAAD(d, ok) ==
  IF ~ok THEN [d EXCEPT !.ret = CollaboratorError("registerAAD")]
  ELSE
    LET scope == oauth2PermissionScopeId(d)
        minted == IF d.existing THEN d.args.accessAsUserScopeId = ""
                  ELSE d.file.aad.oauth2PermissionScopeId = ""
        uuids == IF minted THEN d.uuids + 1 ELSE d.uuids
        app == RegisteredApps[d.botApps + d.ssoApps + 1]
    IN IF d.existing
         THEN [d EXCEPT !.ret = Ok, !.uuids = uuids,
                        !.state = [d.file EXCEPT
                                     !.aad.objectId = d.args.objectId,
                                     !.aad.clientId = d.args.clientId,
                                     !.aad.clientSecret = d.args.clientSecret,
                                     !.aad.oauth2PermissionScopeId = scope]]
       ELSE IF d.file.aad.objectId # "" /\ d.file.aad.clientId # ""
         THEN [d EXCEPT !.ret = Ok, !.uuids = uuids,
                        !.state = [d.file EXCEPT
                                     !.aad.oauth2PermissionScopeId = scope,
                                     !.aad.clientSecret =
                                        IF @ = "" THEN "new-secret" ELSE @]]
       ELSE [d EXCEPT !.ret = Ok, !.uuids = uuids, !.ssoApps = @ + 1,
                      !.state = [d.file EXCEPT
                                   !.aad.oauth2PermissionScopeId = scope,
                                   !.aad.objectId = app,
                                   !.aad.clientId = app,
                                   !.aad.clientSecret = app]]

\* SSODebugHandler.configureAAD; the entries it derives (applicationIdUris,
\* tenantId, ...) are not part of the state kept here
configureAAD(d, ok) ==
  [d EXCEPT !.ret = IF ok THEN Ok ELSE CollaboratorError("configureAAD")]

\* SSODebugHandler.buildAndSaveAADManifest
buildAndSaveAADManifest(d, ok) ==
  [d EXCEPT !.ret = IF ok THEN Ok ELSE CollaboratorError("buildAndSaveAADManifest")]

\* common.ts line 48: action.run()
RunAction(name, d, ok) ==
  CASE name = "Bot.validateArgs" -> Bot_validateArgs(d)
    [] name = "Bot.registerAAD" -> Bot_registerAAD(d, ok)
    [] name = "registerBot" -> registerBot(d, ok)
    [] name = "updateBotMessagingEndpoint" -> updateBotMessagingEndpoint(d, ok)
    [] name = "SSO.validateArgs" -> SSO_validateArgs(d)
    [] name = "SSO.registerAAD" -> SSO_registerAAD(d, ok)
    [] name = "configureAAD" -> configureAAD(d, ok)
    [] name = "buildAndSaveAADManifest" -> buildAndSaveAADManifest(d, ok)
    [] name = "saveStates" -> saveStates(d, ok)
    [] name = "setEnvs" -> setEnvs(d, ok)

\* the loop goes on to the next action whatever the action returned
NextDebugAction_noBreak(d) ==
  LET e == IF IsErr(d.ret) THEN d.ret ELSE d.error
  IN IF d.index = Len(d.actions) THEN [d EXCEPT !.error = e, !.pc = "end"]
     ELSE [d EXCEPT !.error = e, !.index = @ + 1]

\* common.ts lines 44, 49-52: an error ends the loop, otherwise the next
\* action of the list is taken
NextDebugAction(d) ==
  IF IsErr(d.ret) THEN [d EXCEPT !.error = d.ret, !.pc = "end"]
  ELSE IF d.index = Len(d.actions) THEN [d EXCEPT !.pc = "end"]
  ELSE [d EXCEPT !.index = @ + 1]

\* a debug task creates its handler and calls handleDebugActions with the
\* handler's actions (common.ts lines 27-43)
HandleDebugActions ==
  /\ dbg.pc = "idle"
  /\ dbg.runs < MaxDebugRuns
  /\ \E handler \in {"bot", "sso"} :
       \E args \in (IF handler = "bot" THEN BotDebugArgs ELSE SSODebugArgs) :
         dbg' = [dbg EXCEPT !.pc = "loop", !.handler = handler, !.args = args,
                            !.existing = FALSE, !.state = EmptyLocalState,
                            !.actions = getActions(handler), !.index = 1,
                            !.ran = <<>>, !.ret = Ok, !.failedAt = 0,
                            !.error = NoResult, !.result = NoResult,
                            !.runs = @ + 1,
                            !.scopeBefore = dbg.file.aad.oauth2PermissionScopeId]
  /\ UNCHANGED <<provisioning, loader, mig, store, plug, before, mw, ngrok, envState>>

\* common.ts lines 44-57: one turn of the loop
DebugActionRuns ==
  /\ dbg.pc = "loop"
  /\ \E ok \in BOOLEAN :
       LET name == dbg.actions[dbg.index]
           d == RunAction(name, dbg, ok)
           after == [d EXCEPT !.ran = Append(@, name),
                              !.failedAt = IF @ = 0 /\ IsErr(d.ret) THEN dbg.index ELSE @]
       IN dbg' = NextDebugAction(after)
  /\ UNCHANGED <<provisioning, loader, mig, store, plug, before, mw, ngrok, envState>>

\* common.ts lines 58-105: the result of handleDebugActions
DebugActionsEnd ==
  /\ dbg.pc = "end"
  /\ dbg' = [dbg EXCEPT !.pc = "idle",
                         !.result = IF dbg.error # NoResult
                                      THEN UserError("Ext", "errorName") ELSE Ok]
  /\ UNCHANGED <<provisioning, loader, mig, store, plug, before, mw, ngrok, envState>>

InitDebug ==
  /\ NoProvisioning
  /\ mw = NotInUse
  /\ dbg = NewDebug
  /\ ngrok = NotInUse
  /\ envState = NotInUse

NextDebug ==
  \/ HandleDebugActions
  \/ DebugActionRuns
  \/ DebugActionsEnd

SpecDebug == InitDebug /\ [][NextDebug]_vars

\* C36: over all runs of the bot debug actions an AAD app for the bot is
\* registered at most once; a later run finds botId and botPassword in the
\* local environment state, also when the run that registered the app
\* failed at a later action.
C36_BotAadRegisteredOnce == dbg.botApps <= 1

\* C37: once an oauth2PermissionScopeId is stored in the local environment
\* state, a run of the SSO debug actions without accessAsUserScopeId leaves
\* the stored value as it was, with or without existing AAD app arguments.
C37_ScopeIdStable ==
  (dbg.pc = "idle" /\ dbg.handler = "sso" /\ dbg.args.accessAsUserScopeId = ""
     /\ dbg.scopeBefore # "")
    => dbg.file.aad.oauth2PermissionScopeId = dbg.scopeBefore

\* C38: handleDebugActions runs the actions in list order, no action runs
\* after the first one that returned an error, and the result is an error
\* exactly when some action failed.
C38_ActionsInOrderStopAtError ==
  dbg.pc # "none" =>
    /\ dbg.ran = SubSeq(dbg.actions, 1, Len(dbg.ran))
    /\ dbg.failedAt # 0 => Len(dbg.ran) = dbg.failedAt
    /\ (dbg.pc = "loop" /\ dbg.failedAt = 0) => Len(dbg.ran) = dbg.index - 1
    /\ (dbg.pc = "end" /\ dbg.failedAt = 0) => dbg.ran = dbg.actions
    /\ (dbg.pc = "idle" /\ dbg.runs > 0) => (IsErr(dbg.result) <=> dbg.failedAt # 0)

\* a run failed at updateBotMessagingEndpoint: saveStates and setEnvs did
\* not run and the result is an error
C38_Witness ==
  /\ dbg.pc = "idle"
  /\ dbg.handler = "bot"
  /\ dbg.failedAt = 4
  /\ Len(dbg.ran) = 4
  /\ IsErr(dbg.result)

\* ------------------------------------------------------------ getNgrokHttpUrl
\* ngrok.ts line 27: the ports of the ngrok web interface, 4040 up to 4045
\* exclusive
FirstWebInterfacePort == 4040
WebInterfacePortLimit == 4045
\* ngrok.ts line 28
NumRetries == 5
\* tunnels in one response of /api/tunnels
MaxTunnels == 2

\* an address is the sequence of the pieces of its text; a number is the
\* piece of its digits, as the template string at line 37 prints it
AddrInputs ==
  { <<"3978">>, <<"http://localhost:", "3978">>, <<"http://localhost:", "3978", "/">> }

Tunnels ==
  { [public_url |-> "https://a.ngrok.io", proto |-> "https",
     config |-> [addr |-> <<"http://localhost:", "3978">>]],
    [public_url |-> "http://a.ngrok.io", proto |-> "http",
     config |-> [addr |-> <<"http://localhost:", "3978">>]],
    [public_url |-> "https://b.ngrok.io", proto |-> "https",
     config |-> [addr |-> <<"http://localhost:", "5000">>]] }

\* what axios.get gives: an exception, a response without data, or a list
\* of tunnels
NgrokResponses ==
  { [status |-> st, tunnels |-> <<>>] : st \in {"error", "nodata"} }
    \cup { [status |-> "data", tunnels |-> ts] :
             ts \in UNION { [1..n -> Tunnels] : n \in 0..MaxTunnels } }

\* ngrok.ts lines 56-58
removeTrailingSlash(str) ==
  IF str # <<>> /\ str[Len(str)] = "/" THEN SubSeq(str, 1, Len(str) - 1) ELSE str

\* ngrok.ts lines 36-40: an address that starts with an integer is a port of
\* localhost
normaliseAddr(addr) ==
  IF addr # <<>> /\ Head(addr) \in {"3978", "5000"}
    THEN <<"http://localhost:">> \o addr
    ELSE removeTrailingSlash(addr)

\* a tunnel of any protocol with the address is taken
TunnelMatches_anyProto(tunnel, addr) == tunnel.config.addr = addr

\* ngrok.ts line 41
TunnelMatches(tunnel, addr) == tunnel.config.addr = addr /\ tunnel.proto = "https"

\* ngrok.ts lines 35-44: the loop over the tunnels of one response; addr is
\* assigned in every turn
RECURSIVE scanTunnels(_, _)
scanTunnels(tunnels, addr) ==
  IF tunnels = <<>> THEN [addr |-> addr, url |-> "undefined"]
  ELSE LET a == normaliseAddr(addr)
       IN IF TunnelMatches(Head(tunnels), a)
            THEN [addr |-> a, url |-> Head(tunnels).public_url]
            ELSE scanTunnels(Tail(tunnels), a)

\* getNgrokHttpUrl(addr) is called: lines 26-29
NewNgrok(addr) ==
  [ pc |-> "request", requested |-> addr, addr |-> addr,
    ngrokWebInterfacePort |-> FirstWebInterfacePort, numRetries |-> NumRetries,
    requests |-> 0, resp |-> [status |-> "error", tunnels |-> <<>>],
    result |-> "pending" ]

\* lines 30-48: one request to the web interface and what is made of its
\* response
NgrokRequest ==
  /\ ngrok.pc = "request"
  /\ \E resp \in NgrokResponses :
       LET scan == IF resp.status = "data" THEN scanTunnels(resp.tunnels, ngrok.addr)
                   ELSE [addr |-> ngrok.addr, url |-> "undefined"]
           sent == [ngrok EXCEPT !.requests = @ + 1, !.resp = resp, !.addr = scan.addr]
       IN ngrok' = IF scan.url # "undefined"
                     THEN [sent EXCEPT !.pc = "done", !.result = scan.url]
                     ELSE [sent EXCEPT !.pc = "delay"]
  /\ UNCHANGED <<provisioning, loader, mig, store, plug, before, mw, dbg, envState>>

\* lines 49-53 and the loop heads at 27-29: the delay is over
NgrokDelay ==
  /\ ngrok.pc = "delay"
  /\ ngrok' = IF ngrok.numRetries - 1 > 0
                THEN [ngrok EXCEPT !.numRetries = @ - 1, !.pc = "request"]
              ELSE IF ngrok.ngrokWebInterfacePort + 1 < WebInterfacePortLimit
                THEN [ngrok EXCEPT !.ngrokWebInterfacePort = @ + 1,
                                   !.numRetries = NumRetries, !.pc = "request"]
              ELSE [ngrok EXCEPT !.ngrokWebInterfacePort = @ + 1, !.numRetries = 0,
                                 !.pc = "done", !.result = "undefined"]
  /\ UNCHANGED <<provisioning, loader, mig, store, plug, before, mw, dbg, envState>>

InitNgrok ==
  /\ NoProvisioning
  /\ mw = NotInUse
  /\ dbg = NotInUse
  /\ \E addr \in AddrInputs : ngrok = NewNgrok(addr)
  /\ envState = NotInUse

NextNgrok ==
  \/ NgrokRequest
  \/ NgrokDelay

\* every request is answered or fails, and every delay ends
SpecNgrok == InitNgrok /\ [][NextNgrok]_vars /\ WF_vars(NextNgrok)

\* the https tunnels of a response set up for the requested address
MatchingTunnels(resp, requested) ==
  IF resp.status # "data" THEN <<>>
  ELSE SelectSeq(resp.tunnels,
                 LAMBDA t : t.proto = "https" /\ t.config.addr = normaliseAddr(requested))

NgrokResultRight ==
  /\ ngrok.requests <= (WebInterfacePortLimit - FirstWebInterfacePort) * NumRetries
  /\ ngrok.ngrokWebInterfacePort \in FirstWebInterfacePort..WebInterfacePortLimit
  /\ ngrok.pc # "done" => ngrok.result = "pending"
  /\ (ngrok.pc = "delay") => MatchingTunnels(ngrok.resp, ngrok.requested) = <<>>
  /\ (ngrok.pc = "done") =>
        LET m == MatchingTunnels(ngrok.resp, ngrok.requested)
        IN IF m # <<>> THEN ngrok.result = Head(m).public_url
           ELSE /\ ngrok.result = "undefined"
                /\ ngrok.requests = (WebInterfacePortLimit - FirstWebInterfacePort) * NumRetries

\* C39: getNgrokHttpUrl terminates after at most 25 requests (5 ports, 5
\* attempts each); it returns the public URL of the first https tunnel set
\* up for the requested address, and undefined when no response had one,
\* also when every request failed.
C39_NgrokTerminates == []NgrokResultRight /\ <>(ngrok.pc = "done")

\* all 25 requests failed and undefined was returned
C39_Witness ==
  /\ ngrok.pc = "done"
  /\ ngrok.requests = 25
  /\ ngrok.resp.status = "error"
  /\ ngrok.result = "undefined"

\* ------------------------------------------------- environment state V2 <-> V3
\* migrate.ts lines 94-105: plugin name, component name (the value of the
\* ComponentNames constant the source names)
EnvStateMigrationComponentNames ==
  << <<"solution", "solution">>,
     <<"fx-resource-appstudio", "app-manifest">>,
     <<"fx-resource-identity", "identity">>,
     <<"fx-resource-azure-sql", "azure-sql">>,
     <<"fx-resource-aad-app-for-teams", "aad-app">>,
     <<"fx-resource-function", "teams-api">>,
     <<"fx-resource-apim", "apim">>,
     <<"fx-resource-key-vault", "key-vault">>,
     <<"fx-resource-bot", "teams-bot">>,
     <<"fx-resource-frontend-hosting", "teams-tab">> >>

\* keys of the V2 states tried: mapped plugin names and the state key of the
\* simple auth plugin (V1PluginNames.simpleAuth, migrate.ts line 112)
EnvStateV2Keys ==
  {"solution", "fx-resource-appstudio", "fx-resource-bot", "fx-resource-simple-auth"}

\* the content of an entry
EntryValues == {"{}", "{id}"}

\* an environment state is a function from its keys to their entries
EnvStatesV2 == UNION { [keys -> EntryValues] : keys \in SUBSET EnvStateV2Keys }

\* the entries of migrate.ts lines 94-105 with the name at position from
PairsOf(name, from) ==
  { i \in 1..Len(EnvStateMigrationComponentNames) :
      EnvStateMigrationComponentNames[i][from] = name }

\* Map.get of the map built at migrate.ts 136-139 (from = 2) and 154-157
\* (from = 1): the last pair set wins, "" is undefined
MappedName(name, from) ==
  LET found == PairsOf(name, from)
  IN IF found = {} THEN ""
     ELSE EnvStateMigrationComponentNames[CHOOSE i \in found : \A j \in found : j <= i][3 - from]

\* migrate.ts lines 140-145 and 158-163: the keys with a name in the map are
\* copied under that name, in the order of the keys
ConvertKeys(state, from) ==
  LET keys == {k \in DOMAIN state : MappedName(k, from) # ""}
      names == {MappedName(k, from) : k \in keys}
  IN [n \in names |-> state[CHOOSE k \in keys : MappedName(k, from) = n]]

\* migrate.ts lines 134-147
convertEnvStateV3ToV2(envStateV3) == ConvertKeys(envStateV3, 2)

\* migrate.ts lines 152-165
convertEnvStateV2ToV3(envStateV2) == ConvertKeys(envStateV2, 1)

EnvStateConvertV2ToV3 ==
  /\ envState.pc = "v2"
  /\ envState' = [envState EXCEPT !.pc = "v3", !.v3 = convertEnvStateV2ToV3(envState.v2)]
  /\ UNCHANGED <<provisioning, loader, mig, store, plug, before, mw, dbg, ngrok>>

EnvStateConvertV3ToV2 ==
  /\ envState.pc = "v3"
  /\ envState' = [envState EXCEPT !.pc = "back", !.back = convertEnvStateV3ToV2(envState.v3)]
  /\ UNCHANGED <<provisioning, loader, mig, store, plug, before, mw, dbg, ngrok>>

InitEnvState ==
  /\ NoProvisioning
  /\ mw = NotInUse
  /\ dbg = NotInUse
  /\ ngrok = NotInUse
  /\ \E s \in EnvStatesV2 : envState = [pc |-> "v2", v2 |-> s, v3 |-> <<>>, back |-> <<>>]

NextEnvState ==
  \/ EnvStateConvertV2ToV3
  \/ EnvStateConvertV3ToV2

SpecEnvState == InitEnvState /\ [][NextEnvState]_vars

\* C40: converting a V2 environment state to V3 and back gives the state
\* itself, every entry under its original key.
C40_EnvStateRoundTrip == envState.pc = "back" => envState.back = envState.v2
====
